---- MODULE Spec2Model ----
(***************************************************************************)
(* GolfIMU backend: the Redis store adapter (backend/redis_manager.py),    *)
(* the session registry (backend/session_manager.py) and the impact       *)
(* detector and buffered flush of the pipeline (backend/main.py).          *)
(*                                                                         *)
(* Units.  Accelerations are integers in cm/s^2, so that 9.81 m/s^2 is the *)
(* integer 981 and the squared comparison of _detect_impact is exact.      *)
(* Thresholds and g forces are in g; an emitted g_force is kept in milli-g *)
(* (rounded down).  Club length is in mm and club mass in g.               *)
(*                                                                         *)
(* Optional values (Python None) are sequences: <<>> is None and <<v>> is  *)
(* the value v.  A datetime is a record [sec, usec].  A Redis key is the   *)
(* tuple of its ':'-separated parts; session ids are the opaque uuid4      *)
(* strings of models.py, modelled as naturals that contain no ':' and no   *)
(* glob character.                                                         *)
(***************************************************************************)
EXTENDS Integers, Sequences, FiniteSets, TLC

VARIABLES
    redis,            \* the Redis store: key -> string / list / counter value
    hist,             \* history: key -> every value ever pushed on it, newest first
    current_session,  \* SessionManager.current_session: <<>> or <<SessionConfig>>
    next_session,     \* number of session ids (uuid4) drawn so far
    clock,            \* number of uuid4 / datetime.now() values drawn so far
    emitted,          \* history: the SwingEvents built by log_swing_event, newest first
    seen,             \* history: counts of what the calls so far were given (see Tally)
    pc,               \* per manager: the capped append it is in the middle of, if any
    backend,          \* GolfIMUBackend.running, the SerialManager and the loop in progress
    runner,           \* GolfIMUSystemRunner: its fields, its lock and its three threads
    local,            \* RedisManager outside Redis: _imu_buffer and the files of data_dir
    ret               \* the last completed call: its name, arguments and result

vars ==
    <<redis, hist, current_session, next_session, clock, emitted, seen, pc, backend, runner,
      local, ret>>

----------------------------------------------------------------------------
(* Bounds of the model *)

MaxSessions == 2      \* session ids that may be drawn
MaxClock == 1         \* uuid4 / now() values drawn in one run of the session registry
MaxPush == 2          \* capped appends made on top of a pre-filled list
MaxSamples == 2       \* samples given to _detect_impact while a session is current
MaxLines == 2         \* lines of the collected file
MaxEntries == 2       \* entries of a stored list that holds corrupt entries
MaxWrites == 2        \* messages on the transport after which no command writes more
MaxCommands == 1      \* monitoring commands typed at the runner's prompt

(* Program constants *)

IMU_BUFFER_SIZE == 1000     \* entries kept of an imu_buffer list
SWING_BUFFER_SIZE == 100    \* entries kept of a swings list
EVENT_BUFFER_SIZE == 1000   \* entries kept of an events list
MIN_IMPACT_THRESHOLD_G == 5     \* smallest allowed impact threshold, in g
MAX_IMPACT_THRESHOLD_G == 100   \* largest allowed impact threshold, in g
ARDUINO_CONNECT_MAX_RETRIES == 3        \* connection attempts of the runner
ARDUINO_CONNECT_RETRY_DELAY_MS == 2000  \* first delay between attempts, in ms

----------------------------------------------------------------------------
(* Values *)

None == <<>>
Some(v) == <<v>>

Min(a, b) == IF a < b THEN a ELSE b

Managers == {"m1", "m2"}
Users == {"u1"}
Clubs == {"driver"}

\* datetime.now(): the n-th value drawn; odd draws carry microseconds
Now(n) == [sec |-> n, usec |-> (n % 2) * 500000]

\* isoformat that always leaves the microseconds out (timespec="seconds")
isoformat_seconds(dt) == <<dt.sec>>

\* datetime.isoformat(): the microseconds are left out when they are zero
isoformat(dt) == IF dt.usec = 0 THEN <<dt.sec>> ELSE <<dt.sec, dt.usec>>

\* datetime.fromisoformat()
fromisoformat(s) == [sec |-> s[1], usec |-> IF Len(s) = 1 THEN 0 ELSE s[2]]

----------------------------------------------------------------------------
(* The Redis commands the adapter issues *)

EmptyStore == [k \in {} |-> <<>>]

rget(r, key) == IF key \in DOMAIN r THEN Some(r[key]) ELSE None

rset(r, key, value) == [k \in DOMAIN r \cup {key} |-> IF k = key THEN value ELSE r[k]]

lpush(r, key, value) ==
    [k \in DOMAIN r \cup {key} |->
        IF k = key
        THEN (IF key \in DOMAIN r THEN <<value>> \o r[key] ELSE <<value>>)
        ELSE r[k]]

\* LTRIM key start stop with 0 <= start and 0 <= stop (inclusive indexes)
ltrim(r, key, start, stop) ==
    IF key \notin DOMAIN r THEN r
    ELSE LET kept == SubSeq(r[key], start + 1, Min(stop + 1, Len(r[key])))
         IN IF kept = <<>>
            THEN [k \in DOMAIN r \ {key} |-> r[k]]
            ELSE [r EXCEPT ![key] = kept]

\* LRANGE key start stop; stop = -1 is the end of the list
lrange(r, key, start, stop) ==
    IF key \notin DOMAIN r THEN <<>>
    ELSE SubSeq(r[key], start + 1,
                IF stop = -1 THEN Len(r[key]) ELSE Min(stop + 1, Len(r[key])))

llen(r, key) == IF key \in DOMAIN r THEN Len(r[key]) ELSE 0

delete(r, ks) == [k \in DOMAIN r \ ks |-> r[k]]

\* KEYS session:* : the pattern built without the session id
keys_any_session(r, prefix) == {k \in DOMAIN r : k[1] = prefix[1]}

\* KEYS prefix:* for a pattern whose only glob character is the final '*'
keys(r, prefix) ==
    {k \in DOMAIN r : Len(k) > Len(prefix) /\ SubSeq(k, 1, Len(prefix)) = prefix}

----------------------------------------------------------------------------
(* Key derivation *)

\* RedisKey.to_key
to_key(session_config, data_type) ==
    <<"session", session_config.session_id, "user", session_config.user_id,
      "club", session_config.club_id, data_type>>

swings_key(session_id) == <<"session", session_id, "swings">>
events_key(session_id) == <<"session", session_id, "events">>
config_key(session_id) == <<"session_config", session_id>>
counter_key(session_id) == <<"imu_counter", session_id>>

----------------------------------------------------------------------------
(* Records and their JSON form.  json.dumps / json.loads keep a dict of     *)
(* numbers, strings, lists and null as it is; what changes between the     *)
(* object and its stored form is every datetime, stored as its isoformat   *)
(* string.  A stored entry that cannot be decoded is a dict that lacks the *)
(* keys the reader indexes.                                                *)

ImuKeys == {"ax", "ay", "az", "gx", "gy", "gz", "mx", "my", "mz",
            "qw", "qx", "qy", "qz", "timestamp"}

SwingKeys == {"swing_id", "session_id", "imu_data_points", "swing_start_time",
              "swing_end_time", "swing_duration", "impact_g_force", "swing_type"}

ConfigKeys == {"session_id", "user_id", "club_id", "club_length", "club_mass",
               "face_normal_calibration", "impact_threshold", "session_start_time"}

\* the dict store_imu_data and store_swing_data build for one IMUData
imu_to_json(imu) == [imu EXCEPT !.timestamp = isoformat(imu.timestamp)]

\* IMUData(ax=data['ax'], ..., timestamp=datetime.fromisoformat(data['timestamp']))
imu_from_json(data) ==
    [k \in ImuKeys |-> IF k = "timestamp" THEN fromisoformat(data[k]) ELSE data[k]]

imu_decodes(data) == ImuKeys \subseteq DOMAIN data

swing_to_json(swing) ==
    [swing EXCEPT
        !.imu_data_points = [i \in 1..Len(swing.imu_data_points) |->
                                imu_to_json(swing.imu_data_points[i])],
        !.swing_start_time = isoformat(swing.swing_start_time),
        !.swing_end_time = isoformat(swing.swing_end_time)]

swing_decodes(d) ==
    /\ SwingKeys \subseteq DOMAIN d
    /\ \A i \in 1..Len(d.imu_data_points) : imu_decodes(d.imu_data_points[i])

swing_from_json(d) ==
    [k \in SwingKeys |->
        CASE k = "imu_data_points" ->
                [i \in 1..Len(d.imu_data_points) |-> imu_from_json(d.imu_data_points[i])]
          [] k \in {"swing_start_time", "swing_end_time"} -> fromisoformat(d[k])
          [] OTHER -> d[k]]

event_to_json(event) == [event EXCEPT !.timestamp = isoformat(event.timestamp)]

config_to_json(session_config) ==
    [session_config EXCEPT
        !.session_start_time = isoformat(session_config.session_start_time)]

config_from_json(d) ==
    [k \in ConfigKeys |->
        IF k = "session_start_time" THEN fromisoformat(d[k]) ELSE d[k]]

----------------------------------------------------------------------------
(* RedisManager.  Every method runs its Redis commands inside try/except   *)
(* Exception; `fail` names the command that raises in this call ("none":   *)
(* no command raises).  A method is an operator from the store before the  *)
(* call to [r: the store after it, ret: the value returned].               *)

\* store_imu_data: lpush, then ltrim 0 999
store_imu_data(r, imu_data, session_config, fail) ==
    LET key == to_key(session_config, "imu_buffer")
        imu_json == imu_to_json(imu_data)
    IN IF fail = "lpush" THEN [r |-> r, ret |-> FALSE]
       ELSE IF fail = "ltrim" THEN [r |-> lpush(r, key, imu_json), ret |-> FALSE]
       ELSE [r |-> ltrim(lpush(r, key, imu_json), key, 0, 999), ret |-> TRUE]

\* get_imu_buffer that gives up the whole read at the first corrupt entry
get_imu_buffer_all_or_nothing(r, session_config, count, fail) ==
    LET key == to_key(session_config, "imu_buffer")
        data_list == IF count # None /\ count # Some(0)
                     THEN lrange(r, key, 0, count[1] - 1)
                     ELSE lrange(r, key, 0, -1)
    IN IF fail = "lrange" \/ \E i \in 1..Len(data_list) : ~imu_decodes(data_list[i])
       THEN <<>>
       ELSE [i \in 1..Len(data_list) |-> imu_from_json(data_list[i])]

\* get_imu_buffer: count is optional (None or 0 reads the whole list)
get_imu_buffer(r, session_config, count, fail) ==
    LET key == to_key(session_config, "imu_buffer")
        data_list == IF count # None /\ count # Some(0)
                     THEN lrange(r, key, 0, count[1] - 1)
                     ELSE lrange(r, key, 0, -1)
        good == SelectSeq(data_list, imu_decodes)
    IN IF fail = "lrange" THEN <<>>
       ELSE [i \in 1..Len(good) |-> imu_from_json(good[i])]

\* store_swing_data: lpush on session:<id>:swings, then ltrim 0 99
store_swing_data(r, swing_data, session_config, fail) ==
    LET key == swings_key(session_config.session_id)
        swing_json == swing_to_json(swing_data)
    IN IF fail = "lpush" THEN [r |-> r, ret |-> FALSE]
       ELSE IF fail = "ltrim" THEN [r |-> lpush(r, key, swing_json), ret |-> FALSE]
       ELSE [r |-> ltrim(lpush(r, key, swing_json), key, 0, 99), ret |-> TRUE]

\* store_swing_event: lpush on session:<id>:events, then ltrim 0 999
store_swing_event(r, event, session_config, fail) ==
    LET key == events_key(session_config.session_id)
        event_json == event_to_json(event)
    IN IF fail = "lpush" THEN [r |-> r, ret |-> FALSE]
       ELSE IF fail = "ltrim" THEN [r |-> lpush(r, key, event_json), ret |-> FALSE]
       ELSE [r |-> ltrim(lpush(r, key, event_json), key, 0, 999), ret |-> TRUE]

\* get_swing_data: count - 1 raises TypeError when count is None, and the
\* outer except returns []
get_swing_data(r, session_config, count, fail) ==
    LET key == swings_key(session_config.session_id)
        data == lrange(r, key, 0, count[1] - 1)
        good == SelectSeq(data, swing_decodes)
    IN IF count = None \/ fail = "lrange" THEN <<>>
       ELSE [i \in 1..Len(good) |-> swing_from_json(good[i])]

\* get_recent_swings: the list under RedisKey(..., data_type="swing_data").to_key()
get_recent_swings(r, session_config, count, fail) ==
    LET key == to_key(session_config, "swing_data")
        swing_jsons == lrange(r, key, 0, count - 1)
        good == SelectSeq(swing_jsons, swing_decodes)
    IN IF fail = "lrange" THEN <<>>
       ELSE [i \in 1..Len(good) |-> swing_from_json(good[i])]

\* get_session_swing_count: llen of session:<session_id>:swings
get_session_swing_count(r, session_config, fail) ==
    IF fail = "llen" THEN 0 ELSE llen(r, swings_key(session_config.session_id))

\* get_session_statistics, without data_file_size: the counter of the session
\* (or 0) and llen of RedisKey(..., data_type="swing_data").to_key(); {} when a
\* command raises
get_session_statistics(r, session_config, fail) ==
    IF fail # "none" THEN [k \in {} |-> 0]
    ELSE [session_id |-> session_config.session_id,
          user_id |-> session_config.user_id,
          club_id |-> session_config.club_id,
          imu_data_points |-> IF rget(r, counter_key(session_config.session_id)) = None
                              THEN 0
                              ELSE r[counter_key(session_config.session_id)],
          swing_count |-> llen(r, to_key(session_config, "swing_data"))]

\* store_session_config
store_session_config(r, session_config, fail) ==
    IF fail = "set" THEN [r |-> r, ret |-> FALSE]
    ELSE [r |-> rset(r, config_key(session_config.session_id),
                     config_to_json(session_config)),
          ret |-> TRUE]

\* get_session_config: None when the key is absent, when the get raises and
\* when the stored text does not decode
get_session_config(r, session_id, fail) ==
    LET config_json == rget(r, config_key(session_id))
    IN IF fail = "get" \/ config_json = None THEN None
       ELSE IF ~(ConfigKeys \subseteq DOMAIN config_json[1]) THEN None
       ELSE Some(config_from_json(config_json[1]))

\* RedisManager() as constructed: _imu_buffer = [] and no file written yet
\* under data_dir; files maps a session id to the lines of imu_<id>.jsonl
NoFiles == [imu_buffer |-> <<>>, files |-> [id \in {} |-> <<>>]]

\* save_session_data(session_config): [l, ret].  Nothing is done for an empty
\* _imu_buffer; otherwise the file of the session is rewritten with the
\* buffer, or False is returned when open / write raises
save_session_data(l, session_config, fail) ==
    IF l.imu_buffer = <<>> THEN [l |-> l, ret |-> TRUE]
    ELSE IF fail THEN [l |-> l, ret |-> FALSE]
    ELSE [l |-> [l EXCEPT !.files = rset(@, session_config.session_id, l.imu_buffer)],
          ret |-> TRUE]

\* cleanup_session(session_config): [r, l].  A non-empty _imu_buffer is saved
\* and emptied, then the counter key is deleted; exceptions are caught
cleanup_session(r, l, session_config, fail) ==
    LET saved == IF l.imu_buffer # <<>>
                 THEN [save_session_data(l, session_config, fail = "save").l
                          EXCEPT !.imu_buffer = <<>>]
                 ELSE l
    IN [r |-> IF fail = "delete" THEN r
              ELSE delete(r, {counter_key(session_config.session_id)}),
        l |-> saved]

\* clear_session_data without its last delete: the imu_counter key is kept
clear_session_data_keeps_counter(r, session_id, fail) ==
    LET session_config == get_session_config(r, session_id, fail)
        ks == keys(r, <<"session", session_id>>)
        r1 == IF ks # {} THEN delete(r, ks) ELSE r
        r2 == delete(r1, {config_key(session_id)})
    IN IF session_config = None THEN [r |-> r, ret |-> FALSE]
       ELSE IF fail = "keys" THEN [r |-> r, ret |-> FALSE]
       ELSE IF fail = "delete_lists" /\ ks # {} THEN [r |-> r, ret |-> FALSE]
       ELSE IF fail = "delete_config" THEN [r |-> r1, ret |-> FALSE]
       ELSE IF fail = "delete_counter" THEN [r |-> r2, ret |-> FALSE]
       ELSE [r |-> r2, ret |-> TRUE]

\* clear_session_data
clear_session_data(r, session_id, fail) ==
    LET session_config == get_session_config(r, session_id, fail)
        ks == keys(r, <<"session", session_id>>)
        r1 == IF ks # {} THEN delete(r, ks) ELSE r
        r2 == delete(r1, {config_key(session_id)})
        r3 == delete(r2, {counter_key(session_id)})
    IN IF session_config = None THEN [r |-> r, ret |-> FALSE]
       ELSE IF fail = "keys" THEN [r |-> r, ret |-> FALSE]
       ELSE IF fail = "delete_lists" /\ ks # {} THEN [r |-> r, ret |-> FALSE]
       ELSE IF fail = "delete_config" THEN [r |-> r1, ret |-> FALSE]
       ELSE IF fail = "delete_counter" THEN [r |-> r2, ret |-> FALSE]
       ELSE [r |-> r3, ret |-> TRUE]

----------------------------------------------------------------------------
(* SessionManager.  `cur` is current_session; `n` is the number of uuid4 /  *)
(* now() values drawn before the call.                                     *)

\* SessionConfig(...) as create_session builds it: impact_threshold or 30.0
new_session_config(session_id, n, user_id, club_id, club_length, club_mass, face_normal_calibration, impact_threshold) ==
    [session_id |-> session_id,
     user_id |-> user_id,
     club_id |-> club_id,
     club_length |-> club_length,
     club_mass |-> club_mass,
     face_normal_calibration |-> face_normal_calibration,
     impact_threshold |-> IF impact_threshold = None \/ impact_threshold = Some(0)
                          THEN 30 ELSE impact_threshold[1],
     session_start_time |-> Now(n + 1)]

\* create_session that sets current_session before it stores the config
create_session_sets_first(r, cur, session_config, fail) ==
    LET res == store_session_config(r, session_config, fail)
    IN [r |-> res.r, cur |-> Some(session_config), raised |-> ~res.ret]

\* create_session: [r, cur, raised]
create_session(r, cur, session_config, fail) ==
    LET res == store_session_config(r, session_config, fail)
    IN IF res.ret
       THEN [r |-> res.r, cur |-> Some(session_config), raised |-> FALSE]
       ELSE [r |-> res.r, cur |-> cur, raised |-> TRUE]

\* load_session that drops the current session when the id is not found
load_session_clears(r, cur, session_id, fail) ==
    LET session_config == get_session_config(r, session_id, fail)
    IN [cur |-> session_config, ret |-> session_config]

\* load_session: [cur, ret]
load_session(r, cur, session_id, fail) ==
    LET session_config == get_session_config(r, session_id, fail)
    IN IF session_config # None
       THEN [cur |-> session_config, ret |-> session_config]
       ELSE [cur |-> cur, ret |-> None]

\* SessionManager.store_swing_data that stores the swing under the label it
\* came with
SM_store_swing_data_keeps_label(r, cur, swing_data, fail) ==
    IF cur = None THEN [r |-> r, ret |-> FALSE]
    ELSE store_swing_data(r, swing_data, cur[1], fail)

\* SessionManager.store_swing_data that does not ask for a current session
SM_store_swing_data_no_check(r, cur, swing_data, fail) ==
    IF cur = None
    THEN store_swing_data(r, swing_data, [session_id |-> swing_data.session_id], fail)
    ELSE store_swing_data(r, [swing_data EXCEPT !.session_id = cur[1].session_id],
                          cur[1], fail)

\* SessionManager.store_swing_data: the swing is re-labelled with the current
\* session's id before it is stored
SM_store_swing_data(r, cur, swing_data, fail) ==
    IF cur = None THEN [r |-> r, ret |-> FALSE]
    ELSE store_swing_data(r, [swing_data EXCEPT !.session_id = cur[1].session_id],
                          cur[1], fail)

\* SessionManager.get_swing_data(count)
SM_get_swing_data(r, cur, count, fail) ==
    IF cur = None THEN <<>> ELSE get_swing_data(r, cur[1], count, fail)

\* SessionManager.get_imu_buffer(count)
SM_get_imu_buffer(r, cur, count, fail) ==
    IF cur = None THEN <<>> ELSE get_imu_buffer(r, cur[1], count, fail)

\* sum(swing[field] for swing in swings)
RECURSIVE total_of(_, _)
total_of(swings, field) ==
    IF swings = <<>> THEN 0
    ELSE swings[1][field] + total_of(Tail(swings), field)

\* SessionManager.get_swing_statistics(): get_swing_data() is called without
\* a count.  A quotient total / len(swings) is the record [num, den].
get_swing_statistics(r, cur, fail) ==
    IF cur = None THEN [error |-> "No active session"]
    ELSE LET swings == SM_get_swing_data(r, cur, None, fail)
             impacts == {swings[i].impact_g_force : i \in 1..Len(swings)}
         IN IF swings = <<>>
            THEN [swing_count |-> 0, average_duration |-> 0, average_impact_g |-> 0]
            ELSE [swing_count |-> Len(swings),
                  average_duration |-> [num |-> total_of(swings, "swing_duration"),
                                        den |-> Len(swings)],
                  average_impact_g |-> [num |-> total_of(swings, "impact_g_force"),
                                        den |-> Len(swings)],
                  min_impact_g |-> CHOOSE g \in impacts : \A h \in impacts : g <= h,
                  max_impact_g |-> CHOOSE g \in impacts : \A h \in impacts : g >= h,
                  swing_types |-> {swings[i].swing_type : i \in 1..Len(swings)}]

\* log_swing_event: [r, event: the SwingEvent built (or None), ret]
log_swing_event(r, cur, n, event_type, data, fail) ==
    IF cur = None THEN [r |-> r, event |-> None, ret |-> None]
    ELSE LET event == [swing_id |-> n + 1,
                       session_id |-> cur[1].session_id,
                       event_type |-> event_type,
                       timestamp |-> Now(n + 1),
                       data |-> data]
             res == store_swing_event(r, event, cur[1], fail)
         IN [r |-> res.r, event |-> Some(event),
             ret |-> IF res.ret THEN Some(event) ELSE None]

\* allowed_fields of update_session_config
allowed_fields == {"impact_threshold", "face_normal_calibration"}

\* update_session_config that sets every keyword that names a field
update_session_config_any_field(r, cur, kwargs, fail) ==
    IF cur = None THEN [r |-> r, cur |-> cur, ret |-> FALSE]
    ELSE LET updated == [f \in DOMAIN cur[1] |->
                            IF f \in DOMAIN kwargs THEN kwargs[f] ELSE cur[1][f]]
             res == store_session_config(r, updated, fail)
         IN [r |-> res.r, cur |-> Some(updated), ret |-> res.ret]

\* update_session_config(**kwargs): [r, cur, ret].  setattr changes the current
\* SessionConfig object before the store is tried.
update_session_config(r, cur, kwargs, fail) ==
    IF cur = None THEN [r |-> r, cur |-> cur, ret |-> FALSE]
    ELSE LET updated == [f \in DOMAIN cur[1] |->
                            IF f \in allowed_fields /\ f \in DOMAIN kwargs
                            THEN kwargs[f] ELSE cur[1][f]]
             res == store_session_config(r, updated, fail)
         IN [r |-> res.r, cur |-> Some(updated), ret |-> res.ret]

----------------------------------------------------------------------------
(* GolfIMUBackend._detect_impact *)

\* the largest m in lo..hi with m * m <= a (the float a ** 0.5, rounded down)
RECURSIVE isqrt_in(_, _, _)
isqrt_in(a, lo, hi) ==
    IF lo >= hi THEN lo
    ELSE LET mid == (lo + hi + 1) \div 2
         IN IF mid * mid <= a THEN isqrt_in(a, mid, hi) ELSE isqrt_in(a, lo, mid - 1)

isqrt(a) == isqrt_in(a, 0, 46340)

accel_squared(imu_data) ==
    imu_data.ax * imu_data.ax + imu_data.ay * imu_data.ay + imu_data.az * imu_data.az

\* the threshold squared with the conversion from g to m/s^2 left out
threshold_squared_in_g(session_config) ==
    session_config.impact_threshold * session_config.impact_threshold

\* (current_session.impact_threshold * 9.81) ** 2, in (cm/s^2)^2
threshold_squared(session_config) ==
    (session_config.impact_threshold * 981) * (session_config.impact_threshold * 981)

\* the payload of the impact event; g_force in milli-g
impact_data(imu_data) ==
    LET accel_magnitude == isqrt(accel_squared(imu_data))
    IN [g_force |-> (accel_magnitude * 1000) \div 981,
        timestamp |-> isoformat(imu_data.timestamp),
        accel_magnitude |-> accel_magnitude]

\* _detect_impact with a strict comparison (accel_squared > threshold_squared)
detect_impact_strict(r, cur, n, imu_data, fail) ==
    IF cur = None THEN [r |-> r, event |-> None]
    ELSE IF accel_squared(imu_data) > threshold_squared(cur[1])
    THEN LET res == log_swing_event(r, cur, n, "impact", impact_data(imu_data), fail)
         IN [r |-> res.r, event |-> res.event]
    ELSE [r |-> r, event |-> None]

\* _detect_impact: [r, event: the event handed to the store (or None)]
detect_impact(r, cur, n, imu_data, fail) ==
    IF cur = None THEN [r |-> r, event |-> None]
    ELSE IF accel_squared(imu_data) >= threshold_squared(cur[1])
    THEN LET res == log_swing_event(r, cur, n, "impact", impact_data(imu_data), fail)
         IN [r |-> res.r, event |-> res.event]
    ELSE [r |-> r, event |-> None]

----------------------------------------------------------------------------
(* GolfIMUBackend._process_c_collected_data.  A line of the collected file  *)
(* is [text, dict]: text "banner" does not start with '{', "truncated"     *)
(* starts with '{' and is no JSON, "json" is the JSON of dict.             *)

SensorKeys == {"ax", "ay", "az", "gx", "gy", "gz", "mx", "my", "mz"}

\* json.loads(line) and the nine imu_dict["..."] lookups succeed
line_decodes(line) == line.text = "json" /\ SensorKeys \subseteq DOMAIN line.dict

\* imu_dict.get(key, default)
dict_get(d, key, default) == IF key \in DOMAIN d THEN d[key] ELSE default

\* IMUData(ax=imu_dict["ax"], ..., qw=imu_dict.get("qw", 1.0), ..., timestamp=now)
line_to_imu(d, now) ==
    [k \in ImuKeys |->
        CASE k = "timestamp" -> now
          [] k = "qw" -> dict_get(d, "qw", 1)
          [] k \in {"qx", "qy", "qz"} -> dict_get(d, k, 0)
          [] OTHER -> d[k]]

\* the for loop over json_lines, from line i on.  st = [r, h, n, processed]:
\* the store, the push history, the now() values drawn, processed_count.
\* store_imu_data given no session raises inside its try and returns False.
RECURSIVE process_lines(_, _, _, _, _)
process_lines(st, cur, json_lines, fails, i) ==
    IF i > Len(json_lines) THEN st
    ELSE IF ~line_decodes(json_lines[i])
    THEN process_lines(st, cur, json_lines, fails, i + 1)
    ELSE LET imu_data == line_to_imu(json_lines[i].dict, Now(st.n + 1))
             res == IF cur = None THEN [r |-> st.r, ret |-> FALSE]
                    ELSE store_imu_data(st.r, imu_data, cur[1], fails[i])
             h == IF cur = None \/ fails[i] = "lpush" THEN st.h
                  ELSE lpush(st.h, to_key(cur[1], "imu_buffer"), imu_to_json(imu_data))
         IN process_lines([r |-> res.r, h |-> h, n |-> st.n + 1,
                           processed |-> st.processed + 1],
                          cur, json_lines, fails, i + 1)

\* json_lines: the lines of the file that start with '{'
json_lines_of(lines) == SelectSeq(lines, LAMBDA line : line.text # "banner")

\* _process_c_collected_data(filename) on the lines of the file
process_c_collected_data(r, h, cur, n, lines, fails) ==
    process_lines([r |-> r, h |-> h, n |-> n, processed |-> 0],
                  cur, json_lines_of(lines), fails, 1)

----------------------------------------------------------------------------
(* SerialManager and the GolfIMUBackend operations on it.  `b` is the      *)
(* backend record: running, is_connected, serial_connection (None, "open"  *)
(* or "closed"), written (what was written to the transport, oldest        *)
(* first), at (where the backend's thread is) and process (the helper      *)
(* program started by start_data_collection_c).  `fail` says that          *)
(* serial_connection.write raises.                                         *)

\* SerialManager.connect: no port found, Serial(...) raises, or connected
connect(b, outcome) ==
    CASE outcome = "no_port" -> [b |-> b, ret |-> FALSE]
      [] outcome = "error" -> [b |-> [b EXCEPT !.is_connected = FALSE], ret |-> FALSE]
      [] outcome = "ok" -> [b |-> [b EXCEPT !.serial_connection = Some("open"),
                                            !.is_connected = TRUE],
                            ret |-> TRUE]

\* SerialManager.disconnect
disconnect(b) ==
    [b EXCEPT !.serial_connection = IF @ = None THEN None ELSE Some("closed"),
              !.is_connected = FALSE]

\* send_command that looks at the connection object only
send_command_without_flag(b, command, fail) ==
    IF b.serial_connection = None THEN [b |-> b, ret |-> FALSE]
    ELSE IF fail THEN [b |-> b, ret |-> FALSE]
    ELSE [b |-> [b EXCEPT !.written = Append(@, <<command>>)], ret |-> TRUE]

\* SerialManager.send_command(command): [b, ret]
send_command(b, command, fail) ==
    IF ~b.is_connected \/ b.serial_connection = None THEN [b |-> b, ret |-> FALSE]
    ELSE IF fail THEN [b |-> b, ret |-> FALSE]
    ELSE [b |-> [b EXCEPT !.written = Append(@, <<command>>)], ret |-> TRUE]

\* the config_data dict of send_session_config
config_data(session_config) ==
    [f \in {"session_id", "user_id", "club_id", "club_length", "club_mass",
            "impact_threshold"} |-> session_config[f]]

\* SerialManager.send_session_config(session_config): [b, ret]
send_session_config(b, session_config, fail) ==
    IF ~b.is_connected \/ b.serial_connection = None THEN [b |-> b, ret |-> FALSE]
    ELSE IF fail THEN [b |-> b, ret |-> FALSE]
    ELSE [b |-> [b EXCEPT !.written = Append(@, <<"CONFIG", config_data(session_config)>>)],
          ret |-> TRUE]

\* SerialManager.get_connection_status()[1]: the port name, or None
arduino_port(b) ==
    IF b.is_connected /\ b.serial_connection # None THEN Some("port") ELSE None

\* IMUData(**kwargs): the thirteen sensor and quaternion fields and the
\* timestamp are required; [raised, value]
IMUData(kwargs) ==
    IF ImuKeys \subseteq DOMAIN kwargs
    THEN [raised |-> FALSE, value |-> Some([k \in ImuKeys |-> kwargs[k]])]
    ELSE [raised |-> TRUE, value |-> None]

\* SerialManager.read_imu_data() when readline() gives `line`: [raised, value,
\* read], read saying whether readline() was called.  Bytes that are no UTF-8
\* make decode raise a ValueError before `line` is bound, and the handler of
\* ValueError reads `line`.
read_imu_data(b, line, now) ==
    IF ~b.is_connected \/ b.serial_connection = None
    THEN [raised |-> FALSE, value |-> None, read |-> FALSE]
    ELSE IF line.text = "undecodable" THEN [raised |-> TRUE, value |-> None, read |-> TRUE]
    ELSE IF line.text # "json" THEN [raised |-> FALSE, value |-> None, read |-> TRUE]
    ELSE IF ~(ImuKeys \ {"timestamp"} \subseteq DOMAIN line.dict)
    THEN [raised |-> FALSE, value |-> None, read |-> TRUE]
    ELSE [raised |-> FALSE, read |-> TRUE,
          value |-> IMUData([k \in ImuKeys |->
                                IF k = "timestamp" THEN now ELSE line.dict[k]]).value]

\* SerialManager.wait_for_swing_data() when readline() gives `line`: [read,
\* value], read saying whether readline() was called and value being None or
\* the SwingData built from the fields of the JSON object, as they are.  Every
\* exception is caught.
SerialManager_wait_for_swing_data(b, line) ==
    IF ~b.is_connected \/ b.serial_connection = None THEN [read |-> FALSE, value |-> None]
    ELSE IF line.text # "json" THEN [read |-> TRUE, value |-> None]
    ELSE IF ~(SwingKeys \ {"swing_type"} \subseteq DOMAIN line.dict)
    THEN [read |-> TRUE, value |-> None]
    ELSE IF \E i \in 1..Len(line.dict.imu_data_points) :
                ~imu_decodes(line.dict.imu_data_points[i])
    THEN [read |-> TRUE, value |-> None]
    ELSE [read |-> TRUE,
          value |-> Some([k \in SwingKeys |->
                  CASE k = "imu_data_points" ->
                          [i \in 1..Len(line.dict.imu_data_points) |->
                              imu_from_json(line.dict.imu_data_points[i])]
                    [] k \in {"swing_start_time", "swing_end_time"} ->
                          fromisoformat(line.dict[k])
                    [] k = "swing_type" -> dict_get(line.dict, "swing_type", "full_swing")
                    [] OTHER -> line.dict[k]])]

\* the value SerialManager.wait_for_swing_data() returns
serial_wait_for_swing_data(b, line) == SerialManager_wait_for_swing_data(b, line).value

\* SerialManager.imu_data_stream() consumed while readline() gives `lines`, one
\* after the other: [yielded, reads].  An exception of read_imu_data ends the
\* generator.
RECURSIVE imu_data_stream(_, _, _)
imu_data_stream(b, lines, n) ==
    IF ~b.is_connected \/ b.serial_connection = None
    THEN [yielded |-> <<>>, reads |-> 0]
    ELSE IF lines = <<>> THEN [yielded |-> <<>>, reads |-> 0]
    ELSE LET res == read_imu_data(b, Head(lines), Now(n + 1))
             rest == imu_data_stream(b, Tail(lines), n + 1)
         IN IF res.raised THEN [yielded |-> <<>>, reads |-> 1]
            ELSE [yielded |-> (IF res.value = None THEN <<>> ELSE res.value)
                                 \o rest.yielded,
                  reads |-> 1 + rest.reads]

\* SerialManager.get_connection_status(): (connected, port name)
get_connection_status(b) ==
    IF b.is_connected /\ b.serial_connection # None
    THEN [connected |-> TRUE, port |-> Some("port")]
    ELSE [connected |-> FALSE, port |-> None]

\* GolfIMUBackend.wait_for_swing_data that returns the swing whatever the
\* store answered
wait_for_swing_data_ignores_store(r, cur, b, line, fail) ==
    IF cur = None \/ ~b.is_connected THEN [r |-> r, ret |-> None]
    ELSE LET swing_data == serial_wait_for_swing_data(b, line)
         IN IF swing_data = None THEN [r |-> r, ret |-> None]
            ELSE [r |-> SM_store_swing_data(r, cur, swing_data[1], fail).r,
                  ret |-> Some([swing_data[1] EXCEPT !.session_id = cur[1].session_id])]

\* GolfIMUBackend.wait_for_swing_data: [r, ret].  The swing returned is the
\* object store_swing_data re-labelled.
wait_for_swing_data(r, cur, b, line, fail) ==
    IF cur = None THEN [r |-> r, ret |-> None]
    ELSE IF ~b.is_connected THEN [r |-> r, ret |-> None]
    ELSE LET swing_data == serial_wait_for_swing_data(b, line)
         IN IF swing_data = None THEN [r |-> r, ret |-> None]
            ELSE LET res == SM_store_swing_data(r, cur, swing_data[1], fail)
                 IN IF res.ret
                    THEN [r |-> res.r,
                          ret |-> Some([swing_data[1] EXCEPT
                                           !.session_id = cur[1].session_id])]
                    ELSE [r |-> res.r, ret |-> None]

\* GolfIMUBackend.send_session_config_to_arduino: [b, ret]
send_session_config_to_arduino(b, cur, fail) ==
    IF cur = None THEN [b |-> b, ret |-> FALSE]
    ELSE IF ~b.is_connected THEN [b |-> b, ret |-> FALSE]
    ELSE send_session_config(b, cur[1], fail)

\* GolfIMUBackend.start_swing_monitoring: [b, ret]
start_swing_monitoring(b, fail) ==
    IF ~b.is_connected THEN [b |-> b, ret |-> FALSE]
    ELSE send_command(b, "START_MONITORING", fail)

\* GolfIMUBackend.stop_swing_monitoring: [b, ret]
stop_swing_monitoring(b, fail) ==
    IF ~b.is_connected THEN [b |-> b, ret |-> FALSE]
    ELSE send_command(b, "STOP_MONITORING", fail)

\* stop that disconnects before it sends the command
stop_disconnecting_first(b, fail) ==
    stop_swing_monitoring(disconnect([b EXCEPT !.running = FALSE]), fail).b

\* GolfIMUBackend.stop
stop(b, fail) ==
    disconnect(stop_swing_monitoring([b EXCEPT !.running = FALSE], fail).b)

\* start_continuous_monitoring that goes on after a failed config
enter_continuous_monitoring_ignoring_config(b, cur, fail) ==
    IF cur = None THEN [b |-> b, entered |-> FALSE]
    ELSE IF ~b.is_connected THEN [b |-> b, entered |-> FALSE]
    ELSE LET sent == send_session_config_to_arduino([b EXCEPT !.running = TRUE], cur,
                                                    fail = "config")
             started == start_swing_monitoring(sent.b, fail = "start")
         IN IF ~started.ret THEN [b |-> [started.b EXCEPT !.running = FALSE],
                                  entered |-> FALSE]
            ELSE [b |-> [started.b EXCEPT !.at = "loop_head"], entered |-> TRUE]

\* start_continuous_monitoring up to its loop: [b, entered]
enter_continuous_monitoring(b, cur, fail) ==
    IF cur = None THEN [b |-> b, entered |-> FALSE]
    ELSE IF ~b.is_connected THEN [b |-> b, entered |-> FALSE]
    ELSE LET sent == send_session_config_to_arduino([b EXCEPT !.running = TRUE], cur,
                                                    fail = "config")
             started == start_swing_monitoring(sent.b, fail = "start")
         IN IF ~sent.ret
            THEN [b |-> [sent.b EXCEPT !.running = FALSE], entered |-> FALSE]
            ELSE IF ~started.ret
            THEN [b |-> [started.b EXCEPT !.running = FALSE], entered |-> FALSE]
            ELSE [b |-> [started.b EXCEPT !.at = "loop_head"], entered |-> TRUE]

\* the finally clause of start_continuous_monitoring
leave_continuous_monitoring(b, fail) ==
    stop_swing_monitoring([b EXCEPT !.running = FALSE], fail).b

\* start_data_collection_c up to its loop: [b, entered]
enter_data_collection_c(b, cur, helper_exists) ==
    IF cur = None THEN [b |-> b, entered |-> FALSE]
    ELSE IF ~b.is_connected THEN [b |-> b, entered |-> FALSE]
    ELSE LET b1 == [b EXCEPT !.running = TRUE]
         IN IF arduino_port(b1) = None THEN [b |-> b1, entered |-> FALSE]
            ELSE IF ~helper_exists THEN [b |-> b1, entered |-> FALSE]
            ELSE [b |-> [b1 EXCEPT !.process = "running", !.at = "collect_head"],
                  entered |-> TRUE]

----------------------------------------------------------------------------
(* Inputs *)

\* an IMUData with the given acceleration (cm/s^2) and timestamp
Sample(ax, ay, az, t) ==
    [ax |-> ax, ay |-> ay, az |-> az, gx |-> 0, gy |-> 0, gz |-> 0,
     mx |-> 0, my |-> 0, mz |-> 0, qw |-> 1, qx |-> 0, qy |-> 0, qz |-> 0,
     timestamp |-> t]

\* accelerations around the 5 g and 30 g thresholds: 1 g, just below 5 g,
\* exactly 5 g split over two axes (3-4-5), just below 30 g, exactly 30 g on
\* a negative axis
Accels == {<<981, 0, 0>>, <<4904, 0, 0>>, <<2943, 3924, 0>>,
           <<0, 29429, 0>>, <<0, 0, -29430>>}

\* the SwingData the serial manager hands over: swing_id drawn as uuid n + 1,
\* labelled with the session id the device sent
Swing(n, session_id) ==
    [swing_id |-> n + 1,
     session_id |-> session_id,
     imu_data_points |-> <<Sample(981, 0, 0, Now(n))>>,
     swing_start_time |-> Now(n),
     swing_end_time |-> Now(n + 1),
     swing_duration |-> 1,
     impact_g_force |-> 30,
     swing_type |-> "full_swing"]

Calibrations == {None, Some(<<1, 0, 0>>)}
\* impact_threshold arguments of create_session: absent, the smallest allowed
\* value, zero, below the minimum, above the maximum
ThresholdArgs == {None, Some(5), Some(0), Some(2), Some(150)}
DirectThresholds == {0, 5, 35}
SessionIds == 1..MaxSessions
StoreFails == {"none", "lpush", "ltrim"}
ClearFails == {"none", "get", "keys", "delete_lists", "delete_config", "delete_counter"}

\* keyword arguments given to update_session_config: the two allowed fields,
\* fields that are not allowed, and a name that is no field
Kwargs ==
    {[impact_threshold |-> 40],
     [face_normal_calibration |-> Some(<<0, 1, 0>>)],
     [impact_threshold |-> 40, club_length |-> 900],
     [session_id |-> 9, user_id |-> "u2", club_id |-> "iron", club_mass |-> 1,
      session_start_time |-> Now(0)],
     [swing_speed |-> 1]}

\* lines of the collected file: a banner, a truncated record, a record with
\* no "ax", a 1 g record without quaternion, a 35 g record with quaternion
Lines ==
    {[text |-> "banner", dict |-> [t |-> 0]],
     [text |-> "truncated", dict |-> [t |-> 0]],
     [text |-> "json", dict |-> [ay |-> 0, az |-> 0, gx |-> 0, gy |-> 0, gz |-> 0,
                                 mx |-> 0, my |-> 0, mz |-> 0, t |-> 0]],
     [text |-> "json", dict |-> [ax |-> 981, ay |-> 0, az |-> 0, gx |-> 0, gy |-> 0,
                                 gz |-> 0, mx |-> 0, my |-> 0, mz |-> 0, t |-> 0]],
     [text |-> "json", dict |-> [ax |-> 34335, ay |-> 0, az |-> 0, gx |-> 0, gy |-> 0,
                                 gz |-> 0, mx |-> 0, my |-> 0, mz |-> 0,
                                 qw |-> 0, qx |-> 1, qy |-> 0, qz |-> 0, t |-> 0]]}

Files == UNION {[1..len -> Lines] : len \in 1..MaxLines}

\* what readline() gives read_imu_data: a line of the kinds above, nothing
\* within the timeout, or bytes that are no UTF-8
TransportLines ==
    Lines \cup {[text |-> "empty", dict |-> [t |-> 0]],
                [text |-> "undecodable", dict |-> [t |-> 0]]}

\* what readline() gives in turn while imu_data_stream is consumed: nothing,
\* bytes that are no UTF-8, a complete record
StreamLines ==
    {l \in TransportLines : l.text \in {"empty", "undecodable"} \/ "qw" \in DOMAIN l.dict}

\* keyword arguments given to IMUData directly: the fields of a record and a
\* timestamp
ImuKwargs ==
    {[k \in (DOMAIN line.dict \ {"t"}) \cup {"timestamp"} |->
         IF k = "timestamp" THEN Now(0) ELSE line.dict[k]] :
       line \in {l \in Lines : l.text = "json"}}

\* the JSON object of a swing as the device sends it: labelled with a session
\* id, with the given points, times (whole seconds) and duration
DeviceSwing(n, session_id, points, start, end, duration) ==
    [swing_id |-> n + 1,
     session_id |-> session_id,
     imu_data_points |-> points,
     swing_start_time |-> <<start>>,
     swing_end_time |-> <<end>>,
     swing_duration |-> duration,
     impact_g_force |-> 30]

\* what readline() gives wait_for_swing_data as the n-th swing line: nothing,
\* a banner, a swing without "swing_duration", a swing of two seconds with one
\* point, the same without points, and a swing whose duration is not the
\* difference of its times
SwingLines(n) ==
    LET point == imu_to_json(Sample(981, 0, 0, Now(0)))
        good == DeviceSwing(n, 2, <<point>>, 0, 2, 2)
    IN {[text |-> "empty", dict |-> [t |-> 0]],
        [text |-> "banner", dict |-> [t |-> 0]],
        [text |-> "json", dict |-> [k \in DOMAIN good \ {"swing_duration"} |-> good[k]]],
        [text |-> "json", dict |-> good],
        [text |-> "json", dict |-> DeviceSwing(n, 2, <<>>, 0, 2, 2)],
        [text |-> "json", dict |-> DeviceSwing(n, 2, <<point>>, 2, 0, 7)]}

\* what temp_imu_data.txt holds when a collection ends: nothing, or one line
CollectedFiles == {<<>>} \cup [1..1 -> Lines]

\* which write of start_continuous_monitoring raises
WriteFails == {"none", "config", "start"}

----------------------------------------------------------------------------
(* Stores left in Redis by earlier runs of the backend *)

\* the config of session 1
Config1 ==
    new_session_config(1, -1, "u1", "driver", 1070, 205, Some(<<1, 0, 0>>), Some(35))

\* session 1 with a config, one sample, one swing, one event and the
\* imu_counter key that get_session_statistics reads
PopulatedStore ==
    LET r1 == store_session_config(EmptyStore, Config1, "none").r
        r2 == store_imu_data(r1, Sample(981, 0, 0, Now(-3)), Config1, "none").r
        r3 == store_swing_data(r2, Swing(-3, 1), Config1, "none").r
        r4 == log_swing_event(r3, Some(Config1), -2, "swing_start", [note |-> 0],
                              "none").r
    IN rset(r4, counter_key(1), 1)

\* sessions 1 and 2, each with a config, a sample, a swing and an event
TwoSessionStore ==
    LET c2 == new_session_config(2, -5, "u1", "driver", 1070, 205, None, None)
        r1 == store_session_config(PopulatedStore, c2, "none").r
        r2 == store_imu_data(r1, Sample(981, 0, 0, Now(-4)), c2, "none").r
        r3 == store_swing_data(r2, Swing(-4, 2), c2, "none").r
    IN log_swing_event(r3, Some(c2), -3, "swing_start", [note |-> 0], "none").r

\* entries found on the imu_buffer list of session 1: two samples as
\* store_imu_data writes them, and one of them with the "ax" field missing
ImuEntries ==
    {imu_to_json(Sample(981, 0, 0, Now(-3))),
     imu_to_json(Sample(0, 981, 0, Now(-2))),
     [k \in ImuKeys \ {"ax"} |-> imu_to_json(Sample(981, 0, 0, Now(-3)))[k]]}

\* entries found on the swings list of session 1: two swings as
\* store_swing_data writes them, a swing one of whose points lacks "qw", and
\* text that is no JSON object of a swing
SwingEntries ==
    {swing_to_json(Swing(-3, 1)),
     swing_to_json(Swing(-2, 1)),
     [swing_to_json(Swing(-3, 1)) EXCEPT !.imu_data_points =
         <<[k \in ImuKeys \ {"qw"} |-> imu_to_json(Sample(981, 0, 0, Now(-3)))[k]]>>],
     [garbage |-> 0]}

\* the sequences of at most n elements of S
SeqUpTo(S, n) == UNION {[1..len -> S] : len \in 0..n}

\* session 1 with the given imu_buffer and swings lists (an empty list is no key)
StoreWithLists(imu, swings) ==
    LET r1 == store_session_config(EmptyStore, Config1, "none").r
        r2 == IF imu = <<>> THEN r1 ELSE rset(r1, to_key(Config1, "imu_buffer"), imu)
    IN IF swings = <<>> THEN r2 ELSE rset(r2, swings_key(1), swings)

\* session 1 created with impact_threshold=5 and a calibration, session 2
\* created with the default threshold
ImpactStore ==
    LET c1 == new_session_config(1, -2, "u1", "driver", 1070, 205, Some(<<1, 0, 0>>),
                                 Some(5))
        c2 == new_session_config(2, -1, "u1", "driver", 1070, 205, None, None)
        r1 == create_session(EmptyStore, None, c1, "none").r
    IN create_session(r1, Some(c1), c2, "none").r

\* session 1 after cap - 1 successful appends on each capped list: the i-th
\* entry from the head is the (cap - i)-th append
NearlyFullStore ==
    LET r1 == store_session_config(EmptyStore, Config1, "none").r
        r2 == rset(r1, to_key(Config1, "imu_buffer"),
                   [i \in 1..999 |-> imu_to_json(Sample(981, 0, 0, Now(-i)))])
        r3 == rset(r2, swings_key(1),
                   [i \in 1..99 |-> swing_to_json(Swing(-i - 1, 1))])
    IN rset(r3, events_key(1),
            [i \in 1..999 |->
                event_to_json([swing_id |-> -i, session_id |-> 1,
                               event_type |-> "swing_start", timestamp |-> Now(-i),
                               data |-> [note |-> 0]])])

\* the entries held by the swings lists of a store
RECURSIVE swings_in(_, _)
swings_in(r, ks) ==
    IF ks = {} THEN 0
    ELSE LET k == CHOOSE x \in ks : TRUE
         IN (IF Len(k) = 3 /\ k[3] = "swings" THEN Len(r[k]) ELSE 0)
            + swings_in(r, ks \ {k})

\* the history counters that go with a store: samples given to _detect_impact
\* while a session was current, at or above and below its threshold, and
\* store_swing_data calls that returned True
Tally(r) == [above |-> 0, below |-> 0, swings |-> swings_in(r, DOMAIN r)]

\* the sample is at or above the threshold of the session, by the squared
\* comparison in cm/s^2 (9.81 m/s^2 = 981 cm/s^2)
reaches_threshold(a, session_config) ==
    a.ax * a.ax + a.ay * a.ay + a.az * a.az
        >= (session_config.impact_threshold * 981) * (session_config.impact_threshold * 981)

\* the kinds of key a session has in a store
kinds_of(r, session_id) ==
    {kind \in {"config", "imu_buffer", "swings", "events", "imu_counter"} :
        \E k \in DOMAIN r :
            /\ k[2] = session_id
            /\ CASE kind = "config" -> k[1] = "session_config"
                 [] kind = "imu_counter" -> k[1] = "imu_counter"
                 [] OTHER -> k[1] = "session" /\ k[Len(k)] = kind}

\* the push history that goes with a store
HistOf(r) == [k \in {x \in DOMAIN r : x[1] = "session"} |-> r[k]]

\* the history after a call that turned the store into r: the keys the call
\* deleted are forgotten
Forget(h, r) == [k \in DOMAIN h \cap DOMAIN r |-> h[k]]

----------------------------------------------------------------------------
(* Actions: one call of one method, start to return *)

Idle == [m \in Managers |-> "idle"]

\* GolfIMUBackend() and its SerialManager() as constructed: not running, not
\* connected, nothing written to the transport, no loop and no helper process
Stopped ==
    [running |-> FALSE, is_connected |-> FALSE, serial_connection |-> None,
     written |-> <<>>, at |-> "idle", process |-> "none"]

\* SessionManager.create_session(user_id, club_id, club_length, club_mass, ...)
CreateSession ==
    /\ next_session < MaxSessions
    /\ clock < MaxClock
    /\ \E user_id \in Users, club_id \in Clubs, face_normal_calibration \in Calibrations,
          impact_threshold \in ThresholdArgs, fail \in {"none", "set"} :
          LET session_config ==
                  new_session_config(next_session + 1, clock, user_id, club_id, 1070, 205,
                                     face_normal_calibration, impact_threshold)
              res == create_session(redis, current_session, session_config, fail)
          IN /\ redis' = res.r
             /\ current_session' = res.cur
             /\ ret' = [op |-> "create_session", raised |-> res.raised,
                        value |-> session_config, arg |-> impact_threshold]
    /\ next_session' = next_session + 1
    /\ clock' = clock + 1
    /\ UNCHANGED <<hist, emitted, seen, pc, backend, runner, local>>

\* RedisManager.store_session_config(SessionConfig(...)) called directly
StoreSessionConfig ==
    /\ next_session < MaxSessions
    /\ clock < MaxClock
    /\ \E user_id \in Users, club_id \in Clubs, face_normal_calibration \in Calibrations,
          impact_threshold \in DirectThresholds, fail \in {"none", "set"} :
          LET session_config ==
                  [new_session_config(next_session + 1, clock, user_id, club_id, 1070,
                                      205, face_normal_calibration, None)
                      EXCEPT !.impact_threshold = impact_threshold]
              res == store_session_config(redis, session_config, fail)
          IN /\ redis' = res.r
             /\ ret' = [op |-> "store_session_config", value |-> res.ret,
                        session_config |-> session_config]
    /\ next_session' = next_session + 1
    /\ clock' = clock + 1
    /\ UNCHANGED <<hist, current_session, emitted, seen, pc, backend, runner, local>>

\* SessionManager.load_session(session_id)
LoadSession ==
    /\ \E session_id \in SessionIds, fail \in {"none", "get"} :
          LET res == load_session(redis, current_session, session_id, fail)
          IN /\ current_session' = res.cur
             /\ ret' = [op |-> "load_session", session_id |-> session_id,
                        fail |-> fail, value |-> res.ret]
    /\ UNCHANGED <<redis, hist, next_session, clock, emitted, seen, pc, backend, runner, local>>

\* SessionManager.end_session()
EndSession ==
    /\ current_session' = None
    /\ ret' = [op |-> "end_session", value |-> (current_session # None)]
    /\ UNCHANGED <<redis, hist, next_session, clock, emitted, seen, pc, backend, runner, local>>

\* SessionManager.update_session_config(**kwargs)
UpdateSessionConfig ==
    /\ \E kwargs \in Kwargs, fail \in {"none", "set"} :
          LET res == update_session_config(redis, current_session, kwargs, fail)
          IN /\ redis' = res.r
             /\ current_session' = res.cur
             /\ ret' = [op |-> "update_session_config", kwargs |-> kwargs,
                        value |-> res.ret]
    /\ UNCHANGED <<hist, next_session, clock, emitted, seen, pc, backend, runner, local>>

\* SessionManager.clear_session_data(session_id)
ClearSessionData ==
    /\ \E session_id \in SessionIds, fail \in ClearFails :
          LET res == clear_session_data(redis, session_id, fail)
          IN /\ redis' = res.r
             /\ hist' = Forget(hist, res.r)
             /\ ret' = [op |-> "clear_session_data", session_id |-> session_id,
                        had |-> kinds_of(redis, session_id),
                        fail |-> fail, value |-> res.ret]
    /\ UNCHANGED <<current_session, next_session, clock, emitted, seen, pc, backend, runner, local>>

\* RedisManager.store_imu_data(imu_data, current session)
StoreImuData(lim) ==
    /\ current_session # None
    /\ clock < lim
    /\ \E fail \in StoreFails :
          LET imu_data == Sample(981, 0, 0, Now(clock + 1))
              key == to_key(current_session[1], "imu_buffer")
              res == store_imu_data(redis, imu_data, current_session[1], fail)
          IN /\ redis' = res.r
             /\ hist' = IF fail = "lpush" THEN hist
                        ELSE lpush(hist, key, imu_to_json(imu_data))
             /\ ret' = [op |-> "store_imu_data", key |-> key, value |-> res.ret]
    /\ clock' = clock + 1
    /\ UNCHANGED <<current_session, next_session, emitted, seen, pc, backend, runner, local>>

\* SessionManager.store_swing_data(swing_data)
StoreSwingData(lim) ==
    /\ clock < lim
    /\ \E label \in SessionIds, fail \in StoreFails :
          LET swing_data == Swing(clock, label)
              res == SM_store_swing_data(redis, current_session, swing_data, fail)
          IN /\ redis' = res.r
             /\ hist' = IF current_session = None \/ fail = "lpush" THEN hist
                        ELSE lpush(hist, swings_key(current_session[1].session_id),
                                   swing_to_json([swing_data EXCEPT !.session_id =
                                                    current_session[1].session_id]))
             /\ ret' = [op |-> "store_swing_data", swing_id |-> swing_data.swing_id,
                        label |-> label, value |-> res.ret]
             /\ seen' = IF res.ret THEN [seen EXCEPT !.swings = @ + 1] ELSE seen
    /\ clock' = clock + 1
    /\ UNCHANGED <<current_session, next_session, emitted, pc, backend, runner, local>>

\* SessionManager.log_swing_event(event_type, data)
LogSwingEvent(lim) ==
    /\ clock < lim
    /\ \E fail \in StoreFails :
          LET res == log_swing_event(redis, current_session, clock, "swing_start",
                                     [note |-> 0], fail)
          IN /\ redis' = res.r
             /\ hist' = IF res.event = None \/ fail = "lpush" THEN hist
                        ELSE lpush(hist, events_key(current_session[1].session_id),
                                   event_to_json(res.event[1]))
             /\ emitted' = res.event \o emitted
             /\ clock' = IF res.event = None THEN clock ELSE clock + 1
             /\ ret' = [op |-> "log_swing_event", value |-> res.ret]
    /\ UNCHANGED <<current_session, next_session, seen, pc, backend, runner, local>>

\* RedisManager.get_swing_data(current session, count)
GetSwingData ==
    /\ current_session # None
    /\ \E count \in {Some(100), Some(101)}, fail \in {"none", "lrange"} :
          ret' = [op |-> "get_swing_data", count |-> count, fail |-> fail,
                  value |-> get_swing_data(redis, current_session[1], count, fail)]
    /\ UNCHANGED <<redis, hist, current_session, next_session, clock, emitted, seen, pc, backend, runner, local>>

\* RedisManager.get_imu_buffer(session_config, count)
GetImuBuffer ==
    /\ current_session # None
    /\ \E count \in {None, Some(1), Some(100)}, fail \in {"none", "lrange"} :
          ret' = [op |-> "get_imu_buffer", count |-> count, fail |-> fail,
                  value |-> get_imu_buffer(redis, current_session[1], count, fail)]
    /\ UNCHANGED <<redis, hist, current_session, next_session, clock, emitted, seen, pc, backend, runner, local>>

\* SessionManager.get_swing_data(count)
SessionGetSwingData ==
    /\ \E count \in {None, Some(1), Some(100)}, fail \in {"none", "lrange"} :
          ret' = [op |-> "SessionManager.get_swing_data", count |-> count, fail |-> fail,
                  value |-> SM_get_swing_data(redis, current_session, count, fail)]
    /\ UNCHANGED <<redis, hist, current_session, next_session, clock, emitted, seen, pc, backend, runner, local>>

\* SessionManager.get_imu_buffer(count)
SessionGetImuBuffer ==
    /\ \E count \in {None, Some(1), Some(100)}, fail \in {"none", "lrange"} :
          ret' = [op |-> "SessionManager.get_imu_buffer", count |-> count, fail |-> fail,
                  value |-> SM_get_imu_buffer(redis, current_session, count, fail)]
    /\ UNCHANGED <<redis, hist, current_session, next_session, clock, emitted, seen, pc, backend, runner, local>>

\* SessionManager.get_swing_statistics()
GetSwingStatistics ==
    /\ \E fail \in {"none", "lrange"} :
          ret' = [op |-> "get_swing_statistics", fail |-> fail,
                  value |-> get_swing_statistics(redis, current_session, fail)]
    /\ UNCHANGED <<redis, hist, current_session, next_session, clock, emitted, seen, pc, backend, runner, local>>

\* RedisManager.get_recent_swings(session_config, count)
GetRecentSwings ==
    /\ current_session # None
    /\ \E count \in {1, 10}, fail \in {"none", "lrange"} :
          ret' = [op |-> "get_recent_swings", count |-> Some(count), fail |-> fail,
                  value |-> get_recent_swings(redis, current_session[1], count, fail)]
    /\ UNCHANGED <<redis, hist, current_session, next_session, clock, emitted, seen, pc, backend, runner, local>>

\* RedisManager.get_session_swing_count(session_config)
GetSessionSwingCount ==
    /\ current_session # None
    /\ \E fail \in {"none", "llen"} :
          ret' = [op |-> "get_session_swing_count", fail |-> fail,
                  value |-> get_session_swing_count(redis, current_session[1], fail)]
    /\ UNCHANGED <<redis, hist, current_session, next_session, clock, emitted, seen, pc, backend, runner, local>>

\* RedisManager.get_session_statistics(session_config)
GetSessionStatistics ==
    /\ current_session # None
    /\ \E fail \in {"none", "get", "llen"} :
          ret' = [op |-> "get_session_statistics", fail |-> fail,
                  value |-> get_session_statistics(redis, current_session[1], fail)]
    /\ UNCHANGED <<redis, hist, current_session, next_session, clock, emitted, seen, pc, backend, runner, local>>

\* GolfIMUBackend._detect_impact(imu_data)
DetectImpact ==
    /\ seen.above + seen.below < MaxSamples
    /\ \E a \in Accels, fail \in StoreFails :
          LET imu_data == Sample(a[1], a[2], a[3], Now(7))
              res == detect_impact(redis, current_session, clock, imu_data, fail)
              above == /\ current_session # None
                       /\ reaches_threshold(imu_data, current_session[1])
          IN /\ redis' = res.r
             /\ hist' = IF res.event = None \/ fail = "lpush" THEN hist
                        ELSE lpush(hist, events_key(current_session[1].session_id),
                                   event_to_json(res.event[1]))
             /\ emitted' = res.event \o emitted
             /\ clock' = IF res.event = None THEN clock ELSE clock + 1
             /\ seen' = IF current_session = None THEN seen
                        ELSE IF above THEN [seen EXCEPT !.above = @ + 1]
                        ELSE [seen EXCEPT !.below = @ + 1]
             /\ ret' = [op |-> "_detect_impact", imu_data |-> imu_data,
                        session |-> current_session, fail |-> fail]
    /\ UNCHANGED <<current_session, next_session, pc, backend, runner, local>>

\* the json lines of a file that decode to a sample at or above the threshold
\* and that store_imu_data stored (fails[i] is for the i-th json line)
stored_above(lines, fails, session_config) ==
    {i \in 1..Len(json_lines_of(lines)) :
        /\ line_decodes(json_lines_of(lines)[i])
        /\ reaches_threshold(json_lines_of(lines)[i].dict, session_config)
        /\ fails[i] = "none"}

\* the outcomes of the file write of save_session_data: it can fail only when
\* there is something to write
SaveFails(l) == IF l.imu_buffer = <<>> THEN {FALSE} ELSE BOOLEAN

\* GolfIMUBackend._process_c_collected_data(filename), as start_data_collection_c
\* calls it when the collection loop has ended
ProcessCCollectedData ==
    /\ \E lines \in Files :
          /\ clock + Len(lines) <= MaxLines
          /\ \E fails \in [1..Len(lines) -> StoreFails] :
                LET res == process_c_collected_data(redis, hist, current_session, clock,
                                                    lines, fails)
                IN /\ redis' = res.r
                   /\ hist' = res.h
                   /\ clock' = res.n
                   /\ ret' = [op |-> "_process_c_collected_data",
                              lines |-> lines,
                              processed |-> res.processed,
                              skipped |-> None,
                              session |-> current_session,
                              above |-> IF current_session = None THEN 0
                                        ELSE Cardinality(stored_above(lines, fails,
                                                                      current_session[1])),
                              emitted_before |-> Len(emitted)]
    /\ \E fail \in SaveFails(local) :
          local' = IF current_session = None THEN local
                   ELSE save_session_data(local, current_session[1], fail).l
    /\ UNCHANGED <<current_session, next_session, emitted, seen, pc, backend, runner>>

\* RedisManager.cleanup_session(current session)
CleanupSession ==
    /\ current_session # None
    /\ \E fail \in {"none", "delete"} \cup {f \in {"save"} : TRUE \in SaveFails(local)} :
          LET res == cleanup_session(redis, local, current_session[1], fail)
          IN /\ redis' = res.r
             /\ local' = res.l
             /\ ret' = [op |-> "cleanup_session", fail |-> fail,
                        pending |-> Len(local.imu_buffer)]
    /\ UNCHANGED <<hist, current_session, next_session, clock, emitted, seen, pc, backend, runner>>

\* GolfIMUBackend.wait_for_swing_data()
WaitForSwingData ==
    /\ clock < MaxClock
    /\ \E line \in SwingLines(clock), fail \in StoreFails :
          LET res == wait_for_swing_data(redis, current_session, backend, line, fail)
          IN /\ redis' = res.r
             /\ hist' = IF res.r = redis THEN hist
                        ELSE lpush(hist, swings_key(current_session[1].session_id),
                                   res.r[swings_key(current_session[1].session_id)][1])
             /\ seen' = IF res.ret # None THEN [seen EXCEPT !.swings = @ + 1] ELSE seen
             /\ ret' = [op |-> "GolfIMUBackend.wait_for_swing_data", line |-> line,
                        fail |-> fail, value |-> res.ret]
    /\ clock' = clock + 1
    /\ UNCHANGED <<current_session, next_session, emitted, pc, backend, runner, local>>

\* SerialManager.read_imu_data()
ReadImuData ==
    /\ clock < MaxLines
    /\ \E line \in TransportLines :
          LET res == read_imu_data(backend, line, Now(clock + 1))
          IN ret' = [op |-> "read_imu_data", line |-> line,
                     connected |-> backend.is_connected, read |-> res.read,
                     raised |-> res.raised, value |-> res.value]
    /\ clock' = clock + 1
    /\ UNCHANGED <<redis, hist, current_session, next_session, emitted, seen, pc, backend, runner, local>>

\* SerialManager.send_command(command), called directly
SerialSendCommand ==
    /\ Len(backend.written) < MaxWrites
    /\ \E command \in {"START_MONITORING", "REQUEST_SWING"}, fail \in BOOLEAN :
          LET res == send_command(backend, command, fail)
          IN /\ backend' = res.b
             /\ ret' = [op |-> "SerialManager.send_command", read |-> FALSE,
                        value |-> res.ret]
    /\ UNCHANGED <<redis, hist, current_session, next_session, clock, emitted, seen, pc,
                   runner, local>>

\* SerialManager.send_session_config(session_config), called directly
SerialSendSessionConfig ==
    /\ Len(backend.written) < MaxWrites
    /\ \E id \in {1}, fail \in BOOLEAN :
          LET res == send_session_config(backend,
                                         get_session_config(ImpactStore, id, "none")[1],
                                         fail)
          IN /\ backend' = res.b
             /\ ret' = [op |-> "SerialManager.send_session_config", read |-> FALSE,
                        value |-> res.ret]
    /\ UNCHANGED <<redis, hist, current_session, next_session, clock, emitted, seen, pc,
                   runner, local>>

\* SerialManager.wait_for_swing_data(), called directly
SerialWaitForSwingData ==
    /\ \E line \in SwingLines(0) :
          LET res == SerialManager_wait_for_swing_data(backend, line)
          IN ret' = [op |-> "SerialManager.wait_for_swing_data", read |-> res.read,
                     value |-> res.value]
    /\ UNCHANGED <<redis, hist, current_session, next_session, clock, emitted, seen, pc,
                   backend, runner, local>>

\* SerialManager.imu_data_stream(), consumed while the transport gives lines
ImuDataStream ==
    /\ \E lines \in SeqUpTo(StreamLines, MaxLines) :
          LET res == imu_data_stream(backend, lines, 0)
          IN ret' = [op |-> "SerialManager.imu_data_stream", read |-> res.reads > 0,
                     value |-> res.yielded]
    /\ UNCHANGED <<redis, hist, current_session, next_session, clock, emitted, seen, pc,
                   backend, runner, local>>

\* SerialManager.get_connection_status()
GetConnectionStatus ==
    /\ ret' = [op |-> "SerialManager.get_connection_status", read |-> FALSE,
               value |-> get_connection_status(backend)]
    /\ UNCHANGED <<redis, hist, current_session, next_session, clock, emitted, seen, pc,
                   backend, runner, local>>

\* IMUData(...) constructed directly
ConstructIMUData ==
    /\ \E kwargs \in ImuKwargs :
          LET res == IMUData(kwargs)
          IN ret' = [op |-> "IMUData", kwargs |-> kwargs,
                     raised |-> res.raised, value |-> res.value]
    /\ UNCHANGED <<redis, hist, current_session, next_session, clock, emitted, seen, pc,
                   backend, runner, local>>

----------------------------------------------------------------------------
(* The ingestion pipeline of GolfIMUBackend.  backend.at is "idle" between *)
(* operations, "loop_head" / "in_wait" at the test and in the body of the  *)
(* loop of start_continuous_monitoring, "collect_head" / "collect_sleep"   *)
(* at the test and in the body of the loop of start_data_collection_c, and *)
(* "exited" once sys.exit has ended the program.                           *)

Monitoring == {"loop_head", "in_wait"}
Collecting == {"collect_head", "collect_sleep"}

\* the outcomes of the write of STOP_MONITORING: it can fail only when it is
\* attempted, on a connected transport
StopFails(b) == IF b.is_connected /\ b.serial_connection # None THEN BOOLEAN ELSE {FALSE}

\* a command of the command loop of main(): taken between operations
Command(A) == backend.at = "idle" /\ A

\* GolfIMUBackend.connect_arduino(port)
ConnectArduino ==
    /\ backend.at = "idle"
    /\ Len(backend.written) < MaxWrites
    /\ \E outcome \in {"no_port", "error", "ok"} :
          LET res == connect(backend, outcome)
          IN /\ backend' = res.b
             /\ ret' = [op |-> "connect_arduino", value |-> res.ret]
    /\ UNCHANGED <<redis, hist, current_session, next_session, clock, emitted, seen, pc, runner, local>>

\* GolfIMUBackend.disconnect_arduino(), by a command or by another thread
\* while a loop runs (on a transport already closed it changes nothing)
DisconnectArduino ==
    /\ backend.at # "exited"
    /\ disconnect(backend) # backend
    /\ backend' = disconnect(backend)
    /\ ret' = [op |-> "disconnect_arduino"]
    /\ UNCHANGED <<redis, hist, current_session, next_session, clock, emitted, seen, pc, runner, local>>

\* GolfIMUBackend.stop(), by the quit command or by another thread while a
\* loop runs
Stop ==
    /\ backend.at # "exited"
    /\ \E fail \in StopFails(backend) :
          /\ backend' = stop(backend, fail)
          /\ ret' = [op |-> "stop", fail |-> fail]
    /\ UNCHANGED <<redis, hist, current_session, next_session, clock, emitted, seen, pc, runner, local>>

\* GolfIMUBackend.send_session_config_to_arduino()
SendSessionConfigToArduino ==
    /\ backend.at = "idle"
    /\ Len(backend.written) < MaxWrites
    /\ \E fail \in BOOLEAN :
          LET res == send_session_config_to_arduino(backend, current_session, fail)
          IN /\ backend' = res.b
             /\ ret' = [op |-> "send_session_config_to_arduino", value |-> res.ret]
    /\ UNCHANGED <<redis, hist, current_session, next_session, clock, emitted, seen, pc, runner, local>>

\* GolfIMUBackend.start_swing_monitoring()
StartSwingMonitoring ==
    /\ backend.at = "idle"
    /\ Len(backend.written) < MaxWrites
    /\ \E fail \in BOOLEAN :
          LET res == start_swing_monitoring(backend, fail)
          IN /\ backend' = res.b
             /\ ret' = [op |-> "start_swing_monitoring", value |-> res.ret]
    /\ UNCHANGED <<redis, hist, current_session, next_session, clock, emitted, seen, pc, runner, local>>

\* GolfIMUBackend.stop_swing_monitoring()
StopSwingMonitoring ==
    /\ backend.at = "idle"
    /\ Len(backend.written) < MaxWrites
    /\ \E fail \in BOOLEAN :
          LET res == stop_swing_monitoring(backend, fail)
          IN /\ backend' = res.b
             /\ ret' = [op |-> "stop_swing_monitoring", value |-> res.ret]
    /\ UNCHANGED <<redis, hist, current_session, next_session, clock, emitted, seen, pc, runner, local>>

\* start_continuous_monitoring(), up to the first test of its loop; value
\* says whether the loop was entered
StartContinuousMonitoring ==
    /\ backend.at = "idle"
    /\ Len(backend.written) < MaxWrites
    /\ \E fail \in WriteFails :
          LET res == enter_continuous_monitoring(backend, current_session, fail)
          IN /\ backend' = res.b
             /\ ret' = [op |-> "start_continuous_monitoring", value |-> res.entered]
    /\ UNCHANGED <<redis, hist, current_session, next_session, clock, emitted, seen, pc, runner, local>>

\* while self.running, in start_continuous_monitoring: into the body, or out
\* through the finally clause
MonitorTest ==
    /\ backend.at = "loop_head"
    /\ IF backend.running
       THEN /\ backend' = [backend EXCEPT !.at = "in_wait"]
            /\ ret' = [op |-> "monitoring"]
       ELSE \E fail \in StopFails(backend) :
               /\ backend' = [leave_continuous_monitoring(backend, fail)
                                  EXCEPT !.at = "idle"]
               /\ ret' = [op |-> "continuous_monitoring_returned", fail |-> fail]
    /\ UNCHANGED <<redis, hist, current_session, next_session, clock, emitted, seen, pc, runner, local>>

\* the body of the loop: wait_for_swing_data() gives None (no session, not
\* connected, nothing read) and the loop sleeps, or it reads a swing and
\* stores it
MonitorWait ==
    /\ backend.at = "in_wait"
    /\ backend' = [backend EXCEPT !.at = "loop_head"]
    /\ \/ /\ ret' = [op |-> "wait_for_swing_data", value |-> FALSE]
          /\ UNCHANGED <<redis, hist, clock, seen, local>>
       \/ /\ current_session # None
          /\ backend.is_connected /\ backend.serial_connection # None
          /\ clock < MaxClock
          /\ \E label \in SessionIds, fail \in StoreFails :
                LET swing_data == Swing(clock, label)
                    res == SM_store_swing_data(redis, current_session, swing_data, fail)
                IN /\ redis' = res.r
                   /\ hist' = IF fail = "lpush" THEN hist
                              ELSE lpush(hist, swings_key(current_session[1].session_id),
                                         swing_to_json([swing_data EXCEPT !.session_id =
                                                          current_session[1].session_id]))
                   /\ seen' = IF res.ret THEN [seen EXCEPT !.swings = @ + 1] ELSE seen
                   /\ ret' = [op |-> "wait_for_swing_data", value |-> res.ret]
          /\ clock' = clock + 1
    /\ UNCHANGED <<current_session, next_session, emitted, pc, runner, local>>

\* start_data_collection_c(), up to the first test of its loop; value says
\* whether the helper program was started and the loop entered
StartDataCollectionC ==
    /\ backend.at = "idle"
    /\ \E helper_exists \in BOOLEAN :
          LET res == enter_data_collection_c(backend, current_session, helper_exists)
          IN /\ backend' = res.b
             /\ ret' = [op |-> "start_data_collection_c", value |-> res.entered]
    /\ UNCHANGED <<redis, hist, current_session, next_session, clock, emitted, seen, pc, runner, local>>

\* the helper program ends on its own
HelperExits ==
    /\ backend.at # "exited"
    /\ backend.process = "running"
    /\ backend' = [backend EXCEPT !.process = "exited"]
    /\ ret' = [op |-> "helper_exits"]
    /\ UNCHANGED <<redis, hist, current_session, next_session, clock, emitted, seen, pc, runner, local>>

\* start_data_collection_c after its loop: terminate and wait for the helper,
\* count the lines, process them if there are any, running = False
FinishCollection(r) ==
    /\ \E lines \in CollectedFiles :
          /\ clock + Len(lines) <= MaxLines
          /\ \E fails \in [1..Len(lines) -> StoreFails] :
                LET final_count == Len(json_lines_of(lines))
                    res == IF final_count > 0
                           THEN process_c_collected_data(redis, hist, current_session,
                                                         clock, lines, fails)
                           ELSE [r |-> redis, h |-> hist, n |-> clock, processed |-> 0]
                IN /\ redis' = res.r
                   /\ hist' = res.h
                   /\ clock' = res.n
    /\ backend' = [backend EXCEPT !.process = "terminated", !.running = FALSE,
                                  !.at = "idle"]
    /\ ret' = r
    /\ UNCHANGED <<current_session, next_session, emitted, seen, pc, runner, local>>

\* while self.running, in start_data_collection_c
CollectTest ==
    /\ backend.at = "collect_head"
    /\ IF backend.running
       THEN /\ backend' = [backend EXCEPT !.at = "collect_sleep"]
            /\ ret' = [op |-> "collecting"]
            /\ UNCHANGED <<redis, hist, current_session, next_session, clock, emitted,
                           seen, pc, runner, local>>
       ELSE FinishCollection([op |-> "data_collection_c_returned"])

\* the body of the loop: sleep, leave the loop if the helper has ended,
\* count the lines collected so far
CollectPoll ==
    /\ backend.at = "collect_sleep"
    /\ IF backend.process = "running"
       THEN /\ backend' = [backend EXCEPT !.at = "collect_head"]
            /\ ret' = [op |-> "collecting_polled"]
            /\ UNCHANGED <<redis, hist, current_session, next_session, clock, emitted,
                           seen, pc, runner, local>>
       ELSE FinishCollection([op |-> "data_collection_c_returned"])

\* KeyboardInterrupt raised in a loop.  start_continuous_monitoring catches it
\* and runs its finally clause; start_data_collection_c catches it and goes
\* on after the loop.
KeyboardInterrupt ==
    \/ /\ backend.at \in Monitoring
       /\ \E fail \in StopFails(backend) :
             /\ backend' = [leave_continuous_monitoring(backend, fail)
                                EXCEPT !.at = "idle"]
             /\ ret' = [op |-> "interrupt", how |-> "KeyboardInterrupt",
                        during |-> "monitoring", stop_ran |-> TRUE, flushed |-> FALSE,
                        fail |-> fail]
       /\ UNCHANGED <<redis, hist, current_session, next_session, clock, emitted,
                      seen, pc, runner, local>>
    \/ /\ backend.at \in Collecting
       /\ FinishCollection([op |-> "interrupt", how |-> "KeyboardInterrupt",
                            during |-> "collecting", stop_ran |-> FALSE,
                            flushed |-> TRUE, fail |-> FALSE])

\* SIGINT or SIGTERM: _signal_handler runs stop() and sys.exit(0).  SystemExit
\* passes the except clauses of both loops; the finally clause of
\* start_continuous_monitoring runs, start_data_collection_c has none.
Signal ==
    /\ backend.at # "exited"
    /\ \E fail \in StopFails(backend) :
          LET stopped == stop(backend, fail)
          IN /\ backend' = [(IF backend.at \in Monitoring
                             THEN leave_continuous_monitoring(stopped, fail)
                             ELSE stopped) EXCEPT !.at = "exited"]
             /\ ret' = [op |-> "interrupt", how |-> "signal",
                        during |-> CASE backend.at \in Monitoring -> "monitoring"
                                     [] backend.at \in Collecting -> "collecting"
                                     [] OTHER -> "idle",
                        stop_ran |-> TRUE, flushed |-> FALSE, fail |-> fail]
    /\ UNCHANGED <<redis, hist, current_session, next_session, clock, emitted, seen, pc, runner, local>>

----------------------------------------------------------------------------
(* GolfIMUSystemRunner (scripts/run_golfimu_system.py).  `runner` holds    *)
(* its fields: running, redis_process, system_status, status_lock (the     *)
(* thread holding it, if any), command_queue; the Redis server it talks    *)
(* to; where each of its three threads is (at) and the status access each  *)
(* is making or about to make (call); the loop variables of                *)
(* connect_arduino; and what the main thread is running stop() for.        *)
(* History fields: outcomes (what each connection attempt gave), slept     *)
(* (every delay slept between attempts, in ms), connect_ret (what          *)
(* connect_arduino returned), stops (how many stop() calls returned),      *)
(* raised (whether backend.stop() raised in a stop() call).                *)

StatusKeys ==
    {"redis_running", "arduino_connected", "backend_running", "session_active",
     "monitoring_active"}

Threads == {"main", "command", "monitoring"}

\* GolfIMUSystemRunner(): nothing started, every status False, no thread yet
Constructed ==
    [running |-> FALSE, redis_process |-> None, redis_server |-> "none",
     system_status |-> [k \in StatusKeys |-> FALSE], status_lock |-> None,
     command_queue |-> <<>>, typed |-> 0,
     at |-> [main |-> "constructed", command |-> "unstarted", monitoring |-> "unstarted"],
     call |-> [t \in Threads |-> None],
     attempt |-> 0, retry_delay |-> 0, outcomes |-> <<>>, slept |-> <<>>,
     connect_ret |-> None,
     stopper |-> "none", stops |-> 0, raised |-> FALSE]

\* thread t calls _update_status(key, value) and goes on at `then`: it is now
\* at the `with self.status_lock` statement
update_status(rn, t, key, value, then) ==
    [rn EXCEPT !.at[t] = "lock",
               !.call[t] = Some([how |-> "write", key |-> key, value |-> value,
                                 then |-> then])]

\* thread t calls _print_status() and goes on at `then`
print_status(rn, t, then) ==
    [rn EXCEPT !.at[t] = "lock",
               !.call[t] = Some([how |-> "read", key |-> "copy", value |-> FALSE,
                                 then |-> then])]

\* the body of the `with self.status_lock` statement of _update_status and
\* of _print_status, and the release of the lock at its end
with_status_lock(rn, t) ==
    LET c == rn.call[t][1]
    IN [rn EXCEPT !.system_status = IF c.how = "write"
                                    THEN [@ EXCEPT ![c.key] = c.value] ELSE @,
                  !.status_lock = None,
                  !.at[t] = c.then,
                  !.call[t] = None]

\* connect_arduino of the runner whose loop sleeps after every failed attempt
runner_connect_attempt_sleeps_always(rn, ok) ==
    IF ok
    THEN update_status([rn EXCEPT !.attempt = @ + 1, !.outcomes = Append(@, TRUE)],
                       "main", "arduino_connected", TRUE, "connect_return")
    ELSE [rn EXCEPT !.attempt = @ + 1, !.outcomes = Append(@, FALSE),
                    !.slept = Append(@, rn.retry_delay),
                    !.retry_delay = 2 * @]

\* one turn of the loop of the runner's connect_arduino, backend.connect_arduino
\* having answered `ok`
runner_connect_attempt(rn, ok) ==
    IF ok
    THEN update_status([rn EXCEPT !.attempt = @ + 1, !.outcomes = Append(@, TRUE)],
                       "main", "arduino_connected", TRUE, "connect_return")
    ELSE IF rn.attempt < ARDUINO_CONNECT_MAX_RETRIES - 1
    THEN [rn EXCEPT !.attempt = @ + 1, !.outcomes = Append(@, FALSE),
                    !.slept = Append(@, rn.retry_delay),
                    !.retry_delay = 2 * @]
    ELSE [rn EXCEPT !.attempt = @ + 1, !.outcomes = Append(@, FALSE)]

\* stop_redis up to its _update_status call
stop_redis(rn, then) ==
    IF rn.redis_process # None
    THEN update_status([rn EXCEPT !.redis_server = "terminated", !.redis_process = None],
                       "main", "redis_running", FALSE, then)
    ELSE [rn EXCEPT !.at.main = then]

\* main() runs start() inside try and stop() in its finally clause
enter_finally(rn) ==
    [rn EXCEPT !.at.main = "stop", !.stopper = "finally"]

\* start_redis(): redis.conf is missing, a server answers already, the server
\* started answers, the server started does not answer, or Popen raises
RunnerStartRedis ==
    /\ runner.at.main = "constructed"
    /\ \E outcome \in {"no_conf", "already", "started", "no_answer", "raises"} :
          runner' =
             CASE outcome = "already" ->
                     update_status([runner EXCEPT !.redis_server = "external"],
                                   "main", "redis_running", TRUE, "initialize")
               [] outcome = "started" ->
                     update_status([runner EXCEPT !.redis_server = "child",
                                                  !.redis_process = Some("child")],
                                   "main", "redis_running", TRUE, "initialize")
               [] outcome = "no_answer" ->
                     enter_finally([runner EXCEPT !.redis_server = "child",
                                                  !.redis_process = Some("child")])
               [] OTHER -> enter_finally(runner)
    /\ ret' = [op |-> "runner"]
    /\ UNCHANGED <<redis, hist, current_session, next_session, clock, emitted, seen, pc,
                   backend, local>>

\* start(), step 2
RunnerInitializeBackend ==
    /\ runner.at.main = "initialize"
    /\ runner' = update_status([runner EXCEPT !.retry_delay =
                                                 ARDUINO_CONNECT_RETRY_DELAY_MS],
                               "main", "backend_running", TRUE, "connect")
    /\ ret' = [op |-> "runner"]
    /\ UNCHANGED <<redis, hist, current_session, next_session, clock, emitted, seen, pc,
                   backend, local>>

\* connect_arduino(): one turn of its loop, or the return False after it
RunnerConnectArduino ==
    /\ runner.at.main = "connect"
    /\ IF runner.attempt < ARDUINO_CONNECT_MAX_RETRIES
       THEN \E outcome \in {"no_port", "error", "ok"} :
               LET res == connect(backend, outcome)
               IN /\ backend' = res.b
                  /\ runner' = runner_connect_attempt(runner, res.ret)
       ELSE /\ runner' = [runner EXCEPT !.connect_ret = Some(FALSE),
                                        !.at.main = "session"]
            /\ UNCHANGED backend
    /\ ret' = [op |-> "runner"]
    /\ UNCHANGED <<redis, hist, current_session, next_session, clock, emitted, seen, pc, local>>

\* connect_arduino(): return True
RunnerConnectReturn ==
    /\ runner.at.main = "connect_return"
    /\ runner' = [runner EXCEPT !.connect_ret = Some(TRUE), !.at.main = "session"]
    /\ ret' = [op |-> "runner"]
    /\ UNCHANGED <<redis, hist, current_session, next_session, clock, emitted, seen, pc,
                   backend, local>>

\* start_session() with its defaults
RunnerStartSession ==
    /\ runner.at.main = "session"
    /\ \E fail \in {"none", "set"} :
          LET session_config ==
                  new_session_config(next_session + 1, clock, "default_user", "driver",
                                     1070, 205, None, None)
              res == create_session(redis, current_session, session_config, fail)
          IN /\ redis' = res.r
             /\ current_session' = res.cur
             /\ runner' = IF res.raised THEN [runner EXCEPT !.at.main = "threads"]
                          ELSE update_status(runner, "main", "session_active", TRUE,
                                             "threads")
    /\ next_session' = next_session + 1
    /\ clock' = clock + 1
    /\ ret' = [op |-> "runner"]
    /\ UNCHANGED <<hist, emitted, seen, pc, backend, local>>

\* start(), step 5 and _print_status()
RunnerStartThreads ==
    /\ runner.at.main = "threads"
    /\ runner' = print_status([runner EXCEPT !.running = TRUE,
                                             !.at.monitoring = "test",
                                             !.at.command = "test"],
                              "main", "input")
    /\ ret' = [op |-> "runner"]
    /\ UNCHANGED <<redis, hist, current_session, next_session, clock, emitted, seen, pc,
                   backend, local>>

\* _interactive_loop(): one command typed.  quit and end of input leave the
\* loop, start() returns and main() reaches its finally clause; summary,
\* recent_swings and statistics only read the backend and print.
RunnerInput ==
    /\ runner.at.main = "input"
    /\ \E command \in {"quit", "status", "start_monitor", "stop_monitor"} :
          CASE command = "quit" -> runner' = enter_finally(runner)
            [] command = "status" -> runner' = print_status(runner, "main", "input")
            [] OTHER ->
                  /\ runner.typed < MaxCommands
                  /\ runner' = [runner EXCEPT
                                   !.typed = @ + 1,
                                   !.command_queue =
                                      Append(@, IF command = "start_monitor"
                                                THEN "start_monitoring"
                                                ELSE "stop_monitoring")]
    /\ ret' = [op |-> "runner"]
    /\ UNCHANGED <<redis, hist, current_session, next_session, clock, emitted, seen, pc,
                   backend, local>>

\* with self.status_lock: thread t takes the lock
Acquire(t) ==
    /\ runner.at[t] = "lock"
    /\ runner.status_lock = None
    /\ runner' = [runner EXCEPT !.status_lock = Some(t), !.at[t] = "locked"]
    /\ ret' = [op |-> "runner"]
    /\ UNCHANGED <<redis, hist, current_session, next_session, clock, emitted, seen, pc,
                   backend, local>>

\* thread t, holding the lock, writes or copies system_status and releases
WithStatusLock(t) ==
    /\ runner.at[t] = "locked"
    /\ runner' = with_status_lock(runner, t)
    /\ ret' = [op |-> "system_status", thread |-> t, how |-> runner.call[t][1].how,
               holder |-> runner.status_lock]
    /\ UNCHANGED <<redis, hist, current_session, next_session, clock, emitted, seen, pc,
                   backend, local>>

\* stop(): self.running = False
RunnerStop ==
    /\ runner.at.main = "stop"
    /\ runner' = [runner EXCEPT !.running = FALSE, !.raised = FALSE,
                                !.at.main = "stop_backend"]
    /\ ret' = [op |-> "runner"]
    /\ UNCHANGED <<redis, hist, current_session, next_session, clock, emitted, seen, pc,
                   backend, local>>

\* stop(): backend.stop() and the status update, or the exception caught.
\* backend.stop() raises when closing the open serial connection raises.
RunnerStopBackend ==
    /\ runner.at.main = "stop_backend"
    /\ \E fail \in BOOLEAN, close_raises \in BOOLEAN :
          /\ close_raises => backend.serial_connection = Some("open")
          /\ backend' = IF close_raises
                        THEN stop_swing_monitoring([backend EXCEPT !.running = FALSE],
                                                   fail).b
                        ELSE stop(backend, fail)
          /\ runner' = IF close_raises
                       THEN [runner EXCEPT !.raised = TRUE, !.at.main = "stop_redis"]
                       ELSE update_status(runner, "main", "backend_running", FALSE,
                                          "stop_redis")
    /\ ret' = [op |-> "runner"]
    /\ UNCHANGED <<redis, hist, current_session, next_session, clock, emitted, seen, pc, local>>

\* stop(): self.stop_redis()
RunnerStopRedis ==
    /\ runner.at.main = "stop_redis"
    /\ runner' = stop_redis(runner, "stop_return")
    /\ ret' = [op |-> "runner"]
    /\ UNCHANGED <<redis, hist, current_session, next_session, clock, emitted, seen, pc,
                   backend, local>>

\* stop() returns: to sys.exit(0) in _signal_handler, which runs the finally
\* clause of main(), or to the end of main()
RunnerStopReturn ==
    /\ runner.at.main = "stop_return"
    /\ runner' = IF runner.stopper = "handler"
                 THEN enter_finally([runner EXCEPT !.stops = @ + 1])
                 ELSE [runner EXCEPT !.stops = @ + 1, !.at.main = "exited"]
    /\ ret' = [op |-> "runner"]
    /\ UNCHANGED <<redis, hist, current_session, next_session, clock, emitted, seen, pc,
                   backend, local>>

\* SIGINT or SIGTERM before the program has begun to stop: _signal_handler
\* runs on the main thread, on top of whatever the main thread was doing, and
\* what it was doing never resumes
RunnerSignal ==
    /\ runner.stopper = "none"
    /\ runner' = [runner EXCEPT !.at.main = "stop", !.stopper = "handler",
                                !.call["main"] = None]
    /\ ret' = [op |-> "runner"]
    /\ UNCHANGED <<redis, hist, current_session, next_session, clock, emitted, seen, pc,
                   backend, local>>

\* command_processor_thread: while self.running, and the queue looked at
CommandTest ==
    /\ runner.at.command = "test"
    /\ runner.at.main # "exited"
    /\ runner' = IF ~runner.running THEN [runner EXCEPT !.at.command = "done"]
                 ELSE IF runner.command_queue = <<>> THEN runner
                 ELSE [runner EXCEPT !.at.command = "process"]
    /\ ret' = [op |-> "runner"]
    /\ UNCHANGED <<redis, hist, current_session, next_session, clock, emitted, seen, pc,
                   backend, local>>

\* _process_command(command_queue.get_nowait())
ProcessCommand ==
    /\ runner.at.command = "process"
    /\ runner.at.main # "exited"
    /\ LET command == Head(runner.command_queue)
           rn == [runner EXCEPT !.command_queue = Tail(@)]
       IN IF command = "start_monitoring"
          THEN \E fail \in WriteFails :
                  LET sent == send_session_config_to_arduino(backend, current_session,
                                                             fail = "config")
                      started == start_swing_monitoring(sent.b, fail = "start")
                  IN IF ~sent.ret
                     THEN /\ backend' = sent.b
                          /\ runner' = [rn EXCEPT !.at.command = "test"]
                     ELSE /\ backend' = started.b
                          /\ runner' = IF started.ret
                                       THEN update_status(rn, "command",
                                                          "monitoring_active", TRUE, "test")
                                       ELSE [rn EXCEPT !.at.command = "test"]
          ELSE \E fail \in BOOLEAN :
                  /\ backend' = stop_swing_monitoring(backend, fail).b
                  /\ runner' = update_status(rn, "command", "monitoring_active", FALSE,
                                             "test")
    /\ ret' = [op |-> "runner"]
    /\ UNCHANGED <<redis, hist, current_session, next_session, clock, emitted, seen, pc, local>>

\* continuous_monitoring_thread: while self.running and
\* self.system_status['monitoring_active']
MonitoringTest ==
    /\ runner.at.monitoring = "test"
    /\ runner.at.main # "exited"
    /\ runner' = [runner EXCEPT !.at.monitoring =
                                   IF runner.running /\ runner.system_status.monitoring_active
                                   THEN "wait" ELSE "done"]
    /\ ret' = IF runner.running
              THEN [op |-> "system_status", thread |-> "monitoring", how |-> "read",
                    holder |-> runner.status_lock]
              ELSE [op |-> "runner"]
    /\ UNCHANGED <<redis, hist, current_session, next_session, clock, emitted, seen, pc,
                   backend, local>>

\* continuous_monitoring_thread: backend.wait_for_swing_data() gives a swing
\* or None
MonitoringWait ==
    /\ runner.at.monitoring = "wait"
    /\ runner.at.main # "exited"
    /\ runner' = [runner EXCEPT !.at.monitoring = "test"]
    /\ \/ /\ ret' = [op |-> "runner"]
          /\ UNCHANGED <<redis, hist, clock, seen, local>>
       \/ /\ clock <= MaxClock
          /\ \E line \in SwingLines(clock), fail \in {"none"} :
                LET res == wait_for_swing_data(redis, current_session, backend, line, fail)
                IN /\ res.r # redis
                   /\ redis' = res.r
                   /\ hist' = lpush(hist, swings_key(current_session[1].session_id),
                                    res.r[swings_key(current_session[1].session_id)][1])
                   /\ seen' = IF res.ret # None THEN [seen EXCEPT !.swings = @ + 1]
                              ELSE seen
                   /\ ret' = [op |-> "runner"]
          /\ clock' = clock + 1
    /\ UNCHANGED <<current_session, next_session, emitted, pc, backend, local>>

----------------------------------------------------------------------------
(* Specifications *)

\* a backend started over a store that is empty, holds session 1, or holds
\* sessions 1 and 2
Init ==
    /\ redis \in {EmptyStore, PopulatedStore, TwoSessionStore}
    /\ hist = HistOf(redis)
    /\ current_session = None
    /\ next_session = Cardinality({k \in DOMAIN redis : k[1] = "session_config"})
    /\ clock = 0
    /\ emitted = <<>>
    /\ seen = Tally(redis)
    /\ pc = Idle
    /\ backend = Stopped
    /\ runner = Constructed
    /\ local = NoFiles
    /\ ret = [op |-> "init"]

\* loading, filling and clearing the sessions of the store
Next ==
    \/ LoadSession
    \/ EndSession
    \/ ClearSessionData
    \/ StoreImuData(MaxClock)
    \/ StoreSwingData(MaxClock)
    \/ LogSwingEvent(MaxClock)

Spec == Init /\ [][Next]_vars

\* creating, storing and loading session configs
NextConfig ==
    \/ CreateSession
    \/ StoreSessionConfig
    \/ LoadSession
    \/ EndSession

SpecConfig == Init /\ [][NextConfig]_vars

\* the capped lists of one session under a single manager, from cap - 1 entries
InitStore ==
    /\ redis = NearlyFullStore
    /\ hist = HistOf(redis)
    /\ current_session = Some(Config1)
    /\ next_session = 1
    /\ clock = 0
    /\ emitted = <<>>
    /\ seen = Tally(redis)
    /\ pc = Idle
    /\ backend = Stopped
    /\ runner = Constructed
    /\ local = NoFiles
    /\ ret = [op |-> "init"]

NextStore ==
    \/ StoreImuData(MaxPush)
    \/ StoreSwingData(MaxPush)
    \/ LogSwingEvent(MaxPush)
    \/ GetSwingData

SpecStore == InitStore /\ [][NextStore]_vars

----------------------------------------------------------------------------
(* The capped append as the two Redis commands it is: two RedisManager     *)
(* instances, each inside store_imu_data, store_swing_data or              *)
(* store_swing_event for session 1, with their commands interleaved.       *)

CappedKinds == {"imu_buffer", "swings", "events"}

\* the key each store method pushes on
capped_key(session_config, kind) ==
    CASE kind = "imu_buffer" -> to_key(session_config, "imu_buffer")
      [] kind = "swings" -> swings_key(session_config.session_id)
      [] kind = "events" -> events_key(session_config.session_id)

\* the stop index each store method trims to
capped_stop(kind) ==
    CASE kind = "imu_buffer" -> 999
      [] kind = "swings" -> 99
      [] kind = "events" -> 999

\* the JSON each store method pushes for the n-th value drawn
capped_json(kind, n) ==
    CASE kind = "imu_buffer" -> imu_to_json(Sample(981, 0, 0, Now(n)))
      [] kind = "swings" -> swing_to_json(Swing(n - 1, 1))
      [] kind = "events" ->
            event_to_json([swing_id |-> n, session_id |-> 1, event_type |-> "impact",
                           timestamp |-> Now(n), data |-> [note |-> 0]])

\* self.redis_client.lpush(key, json): on an exception the method returns False
PushStep(m) ==
    /\ pc[m] = "idle"
    /\ clock < MaxPush
    /\ \E kind \in CappedKinds, fail \in {"none", "lpush"} :
          LET key == capped_key(Config1, kind)
              value == capped_json(kind, clock + 1)
          IN IF fail = "lpush"
             THEN /\ ret' = [op |-> "store", manager |-> m, kind |-> kind, value |-> FALSE]
                  /\ UNCHANGED <<redis, hist, pc, runner, local>>
             ELSE /\ redis' = lpush(redis, key, value)
                  /\ hist' = lpush(hist, key, value)
                  /\ pc' = [pc EXCEPT ![m] = kind]
                  /\ UNCHANGED ret
    /\ clock' = clock + 1
    /\ UNCHANGED <<current_session, next_session, emitted, seen, backend, runner, local>>

\* self.redis_client.ltrim(key, 0, stop), then return True; on an exception
\* the method returns False
TrimStep(m) ==
    /\ pc[m] # "idle"
    /\ \E fail \in {"none", "ltrim"} :
          /\ redis' = IF fail = "ltrim" THEN redis
                      ELSE ltrim(redis, capped_key(Config1, pc[m]), 0, capped_stop(pc[m]))
          /\ ret' = [op |-> "store", manager |-> m, kind |-> pc[m],
                     value |-> (fail = "none")]
          /\ seen' = IF pc[m] = "swings" /\ fail = "none"
                     THEN [seen EXCEPT !.swings = @ + 1] ELSE seen
    /\ pc' = [pc EXCEPT ![m] = "idle"]
    /\ UNCHANGED <<hist, current_session, next_session, clock, emitted, backend, runner, local>>

NextSteps == \E m \in Managers : PushStep(m) \/ TrimStep(m)

SpecSteps == InitStore /\ [][NextSteps]_vars

----------------------------------------------------------------------------
(* The impact detector, and the buffered flush, over a store that holds    *)
(* session 1 (threshold 5 g) and session 2 (threshold 30 g); the backend   *)
(* has no current session or has loaded one of the two.                    *)

InitImpact ==
    /\ redis = ImpactStore
    /\ hist = HistOf(redis)
    /\ current_session \in {None} \cup {get_session_config(ImpactStore, id, "none") :
                                          id \in {1, 2}}
    /\ next_session = 2
    /\ clock = 0
    /\ emitted = <<>>
    /\ seen = Tally(redis)
    /\ pc = Idle
    /\ backend = Stopped
    /\ runner = Constructed
    /\ local = NoFiles
    /\ ret = [op |-> "init"]

SpecImpact == InitImpact /\ [][DetectImpact]_vars

\* updating the config of the current session
NextUpdate ==
    \/ UpdateSessionConfig
    \/ LoadSession
    \/ EndSession

SpecUpdate == InitImpact /\ [][NextUpdate]_vars

\* the calls that set or change the current session and its stored config
NextCurrent ==
    \/ CreateSession
    \/ LoadSession
    \/ UpdateSessionConfig
    \/ EndSession

SpecCurrent == Init /\ [][NextCurrent]_vars

\* swings stored for the current session and the four readers of its swings
NextReaders ==
    \/ LoadSession
    \/ StoreSwingData(MaxClock)
    \/ GetSwingData
    \/ GetRecentSwings
    \/ GetSessionSwingCount
    \/ GetSessionStatistics

SpecReaders == Init /\ [][NextReaders]_vars

\* the transport commands and the two ingestion loops of the backend, with
\* the interrupts and the calls of other threads that can arrive while a loop
\* runs; the current session is the one the backend was started with
NextPipeline ==
    \/ ConnectArduino
    \/ DisconnectArduino
    \/ Stop
    \/ SendSessionConfigToArduino
    \/ StartSwingMonitoring
    \/ StopSwingMonitoring
    \/ StartContinuousMonitoring
    \/ MonitorTest
    \/ MonitorWait
    \/ StartDataCollectionC
    \/ HelperExits
    \/ CollectTest
    \/ CollectPoll
    \/ KeyboardInterrupt
    \/ Signal

SpecPipeline == InitImpact /\ [][NextPipeline]_vars

\* continuous monitoring alone; the thread that runs the loop keeps running
NextMonitoring ==
    \/ Command(LoadSession)
    \/ Command(EndSession)
    \/ ConnectArduino
    \/ DisconnectArduino
    \/ Stop
    \/ StartContinuousMonitoring
    \/ MonitorTest
    \/ MonitorWait

SpecMonitoring ==
    InitImpact /\ [][NextMonitoring]_vars /\ WF_vars(MonitorTest) /\ WF_vars(MonitorWait)

\* the decoders: a line read from the transport, the lines of the collected
\* file, the model constructor
NextDecode ==
    \/ ConnectArduino
    \/ DisconnectArduino
    \/ ReadImuData
    \/ ProcessCCollectedData
    \/ ConstructIMUData

SpecDecode == InitImpact /\ [][NextDecode]_vars

\* list reads over a store whose lists of session 1 were written in part by
\* something else than this backend
InitRead ==
    /\ redis \in {StoreWithLists(imu, swings) :
                     imu \in SeqUpTo(ImuEntries, MaxEntries),
                     swings \in SeqUpTo(SwingEntries, MaxEntries)}
    /\ hist = HistOf(redis)
    /\ current_session = Some(Config1)
    /\ next_session = 1
    /\ clock = 0
    /\ emitted = <<>>
    /\ seen = Tally(redis)
    /\ pc = Idle
    /\ backend = Stopped
    /\ runner = Constructed
    /\ local = NoFiles
    /\ ret = [op |-> "init"]

NextRead ==
    \/ GetImuBuffer
    \/ GetSwingData

SpecRead == InitRead /\ [][NextRead]_vars

\* swings received from the device, one call of wait_for_swing_data at a time
NextSwing ==
    \/ ConnectArduino
    \/ DisconnectArduino
    \/ Command(LoadSession)
    \/ Command(EndSession)
    \/ WaitForSwingData

SpecSwing == InitImpact /\ [][NextSwing]_vars

\* update_session_config called while no session is current
UpdateWithoutSession == current_session = None /\ UpdateSessionConfig

\* the session-scoped operations of the SessionManager, with and without a
\* current session (updates of a current session are in SpecUpdate)
NextSession ==
    \/ LoadSession
    \/ EndSession
    \/ StoreSwingData(MaxClock)
    \/ LogSwingEvent(MaxClock)
    \/ SessionGetSwingData
    \/ SessionGetImuBuffer
    \/ UpdateWithoutSession
    \/ GetSwingStatistics

SpecSession == Init /\ [][NextSession]_vars

NextFlush ==
    \/ ProcessCCollectedData
    \/ LoadSession
    \/ EndSession

SpecFlush == InitImpact /\ [][NextFlush]_vars

\* the flush of the collected file with its save to disk, and the cleanup
NextSave ==
    \/ ProcessCCollectedData
    \/ CleanupSession
    \/ LoadSession
    \/ EndSession

SpecSave == InitImpact /\ [][NextSave]_vars

\* the SerialManager used directly
NextSerial ==
    \/ ConnectArduino
    \/ DisconnectArduino
    \/ SerialSendCommand
    \/ SerialSendSessionConfig
    \/ ReadImuData
    \/ SerialWaitForSwingData
    \/ ImuDataStream
    \/ GetConnectionStatus

SpecSerial == InitImpact /\ [][NextSerial]_vars

\* the runner started by main(), over an empty store
InitRunner ==
    /\ redis = EmptyStore
    /\ hist = HistOf(redis)
    /\ current_session = None
    /\ next_session = 0
    /\ clock = 0
    /\ emitted = <<>>
    /\ seen = Tally(redis)
    /\ pc = Idle
    /\ backend = Stopped
    /\ runner = Constructed
    /\ local = NoFiles
    /\ ret = [op |-> "init"]

\* the steps of the main thread, the signal handler included
MainThread ==
    \/ RunnerStartRedis
    \/ RunnerInitializeBackend
    \/ RunnerConnectArduino
    \/ RunnerConnectReturn
    \/ RunnerStartSession
    \/ RunnerStartThreads
    \/ Acquire("main")
    \/ WithStatusLock("main")
    \/ RunnerStop
    \/ RunnerStopBackend
    \/ RunnerStopRedis
    \/ RunnerStopReturn

CommandThread ==
    \/ CommandTest
    \/ ProcessCommand
    \/ Acquire("command")
    \/ WithStatusLock("command")

MonitoringThread == MonitoringTest \/ MonitoringWait

NextRunner ==
    \/ MainThread
    \/ CommandThread
    \/ MonitoringThread
    \/ RunnerInput
    \/ RunnerSignal

\* every thread that can take a step takes one in the end; nothing is
\* required of the user or of the signals
SpecRunner ==
    /\ InitRunner
    /\ [][NextRunner]_vars
    /\ WF_vars(MainThread)
    /\ WF_vars(CommandThread)
    /\ WF_vars(MonitoringThread)

----------------------------------------------------------------------------
(* Properties *)

\* the number of entries each capped list is meant to keep
Cap(kind) ==
    CASE kind = "imu_buffer" -> IMU_BUFFER_SIZE
      [] kind = "swings" -> SWING_BUFFER_SIZE
      [] kind = "events" -> EVENT_BUFFER_SIZE

\* the entries of a list, head first
entries(r, key) == lrange(r, key, 0, -1)

\* C1 (SpecStore): after any sequence of completed store_imu_data,
\* store_swing_data and store_swing_event calls for one session, the imu_buffer
\* list holds at most 1000 entries, the swings list at most 100 and the events
\* list at most 1000, and each list is exactly the newest entries pushed on it
\* (what was dropped is the oldest).
C1_CappedListsWithinCap ==
    \A kind \in CappedKinds :
        LET key == capped_key(Config1, kind)
            pushed == hist[key]
        IN /\ llen(redis, key) <= Cap(kind)
           /\ entries(redis, key) = SubSeq(pushed, 1, Min(Cap(kind), Len(pushed)))

\* C2 (SpecStore): after more than N = 100 successful store_swing_data calls for
\* a session, get_swing_data with count >= N returns exactly N records, the N
\* most recently pushed, in the order they were pushed (the oldest of them
\* first).
C2_RecentSwingsInPushOrder ==
    (/\ ret.op = "get_swing_data"
     /\ ret.fail = "none"
     /\ ret.count[1] >= SWING_BUFFER_SIZE
     /\ seen.swings > SWING_BUFFER_SIZE)
    => LET pushed == hist[swings_key(current_session[1].session_id)]
       IN /\ Len(ret.value) = SWING_BUFFER_SIZE
          /\ \A i \in 1..SWING_BUFFER_SIZE :
                ret.value[i] = swing_from_json(pushed[SWING_BUFFER_SIZE + 1 - i])

\* C3 (SpecSteps): with lpush and ltrim as the two separate commands of a store
\* call and two managers appending to the lists of one session, no reachable
\* state, the states between a push and its trim included, has a capped list
\* longer than its cap, and every list is ordered most-recent-first.
C3_CappedAppendIsAtomic ==
    \A kind \in CappedKinds :
        LET list == entries(redis, capped_key(Config1, kind))
        IN /\ Len(list) <= Cap(kind)
           /\ list = SubSeq(hist[capped_key(Config1, kind)], 1, Len(list))

\* C4 (Spec): after clear_session_data(s) has returned True, no key of s is in
\* the store: get_session_config(s) and load_session(s) return None,
\* get_swing_data, get_imu_buffer and the events list of s are empty and the
\* imu_counter key of s is gone.
C4_ClearRemovesEveryKey ==
    (ret.op = "clear_session_data" /\ ret.value)
    => LET s == ret.session_id
       IN /\ \A k \in DOMAIN redis : k[2] # s
          /\ get_session_config(redis, s, "none") = None
          /\ load_session(redis, current_session, s, "none").ret = None
          /\ \A user_id \in Users, club_id \in Clubs :
                LET session_config ==
                        [session_id |-> s, user_id |-> user_id, club_id |-> club_id]
                IN /\ get_swing_data(redis, session_config, Some(SWING_BUFFER_SIZE),
                                     "none") = <<>>
                   /\ get_imu_buffer(redis, session_config, None, "none") = <<>>
          /\ entries(redis, events_key(s)) = <<>>
          /\ counter_key(s) \notin DOMAIN redis

\* C4 witness: a clear that returned True for a session that had a config,
\* samples, swings, events and an imu counter
C4_ClearedFullSession ==
    /\ ret.op = "clear_session_data"
    /\ ret.value
    /\ ret.had = {"config", "imu_buffer", "swings", "events", "imu_counter"}

\* C5 (Spec): clear_session_data(s) for a session with no stored config returns
\* False and changes nothing in the store (no delete), and every
\* clear_session_data(s), successful or not, leaves every key of every other
\* session as it was.
C5_ClearLeavesOtherSessions ==
    [][ret'.op = "clear_session_data"
       => LET s == ret'.session_id
          IN /\ config_key(s) \notin DOMAIN redis => (~ret'.value /\ redis' = redis)
             /\ \A k \in DOMAIN redis \cup DOMAIN redis' :
                    k[2] # s => /\ k \in DOMAIN redis
                                /\ k \in DOMAIN redis'
                                /\ redis'[k] = redis[k]]_vars

\* C5 witness: a clear of a session that has keys but no config, in a store
\* that holds another session; it returned False and the keys are still there
C5_ClearedSessionWithoutConfig ==
    /\ ret.op = "clear_session_data"
    /\ ~ret.value
    /\ ret.had # {}
    /\ "config" \notin ret.had
    /\ kinds_of(redis, ret.session_id) = ret.had
    /\ \E k \in DOMAIN redis : k[2] # ret.session_id

\* C6 (SpecConfig): after store_session_config(c) has returned True (called directly
\* or by create_session), get_session_config(c.session_id) on the same store
\* returns a config equal to c in each of its eight fields.
C6_ConfigRoundTrip ==
    LET c == IF ret.op = "store_session_config" THEN ret.session_config ELSE ret.value
        stored == \/ ret.op = "store_session_config" /\ ret.value
                  \/ ret.op = "create_session" /\ ~ret.raised
    IN stored
       => LET got == get_session_config(redis, c.session_id, "none")
          IN /\ got # None
             /\ DOMAIN got[1] = ConfigKeys
             /\ \A f \in ConfigKeys : got[1][f] = c[f]

\* C6 witness: a stored config with a calibration vector and a start time
\* that carries microseconds
C6_StoredCalibratedConfig ==
    /\ ret.op = "store_session_config"
    /\ ret.value
    /\ ret.session_config.face_normal_calibration # None
    /\ ret.session_config.session_start_time.usec # 0
    /\ ret.session_config.impact_threshold = 35

\* C7 (SpecImpact): a call of _detect_impact with no current session, or with a
\* sample whose squared acceleration is strictly below
\* (impact_threshold * 9.81)^2, logs no event and writes nothing to the store.
C7_BelowThresholdLogsNothing ==
    [][(/\ ret'.op = "_detect_impact"
        /\ \/ ret'.session = None
           \/ ~reaches_threshold(ret'.imu_data, ret'.session[1]))
       => (emitted' = emitted /\ redis' = redis /\ hist' = hist)]_vars

\* C7 witness: a sample of 4904 cm/s^2 given to a session whose threshold is
\* 5 g = 4905 cm/s^2
C7_SampleJustBelowThreshold ==
    /\ ret.op = "_detect_impact"
    /\ ret.session # None
    /\ ret.session[1].impact_threshold = 5
    /\ ret.imu_data.ax = 4904
    /\ seen.below >= 1
    /\ emitted = <<>>

\* C8 (SpecImpact): with a current session, every sample whose squared
\* acceleration is at or above (impact_threshold * 9.81)^2 makes _detect_impact
\* emit exactly one event, so k such samples give k events; the event has type
\* "impact", the sample's timestamp and g_force = sqrt(ax^2+ay^2+az^2) / 9.81
\* (here: the square root rounded down to 1 cm/s^2, the g force to 1 milli-g),
\* and it is at the head of the events list when the store took it.
C8_EachImpactSampleEmitsOneEvent ==
    /\ Len(emitted) = seen.above
    /\ (/\ ret.op = "_detect_impact"
        /\ ret.session # None
        /\ reaches_threshold(ret.imu_data, ret.session[1]))
       => /\ emitted # <<>>
          /\ LET e == Head(emitted)
                 a == ret.imu_data.ax * ret.imu_data.ax + ret.imu_data.ay * ret.imu_data.ay
                      + ret.imu_data.az * ret.imu_data.az
                 m == e.data.accel_magnitude
                 g == e.data.g_force
             IN /\ e.event_type = "impact"
                /\ e.session_id = ret.session[1].session_id
                /\ e.data.timestamp = isoformat(ret.imu_data.timestamp)
                /\ m * m <= a /\ a < (m + 1) * (m + 1)
                /\ g * 981 <= m * 1000 /\ m * 1000 < (g + 1) * 981
                /\ ret.fail = "none"
                   => Head(entries(redis, events_key(e.session_id))) = event_to_json(e)

\* C8 witness: two samples in a row exactly at the 5 g threshold (2943 and
\* 3924 cm/s^2 on two axes), two events
C8_TwoBoundarySamplesTwoEvents ==
    /\ ret.op = "_detect_impact"
    /\ ret.session # None
    /\ ret.session[1].impact_threshold = 5
    /\ ret.imu_data.ax = 2943
    /\ seen = [seen EXCEPT !.above = 2, !.below = 0]
    /\ Len(emitted) = 2
    /\ emitted[2].data.accel_magnitude = 4905

\* C9 (SpecFlush): when the collected file holds a sample at or above the
\* threshold of the current session and the flush decodes and stores it,
\* _process_c_collected_data results in an impact event for the session.
C9_FlushChecksForImpact ==
    (/\ ret.op = "_process_c_collected_data"
     /\ ret.session # None
     /\ ret.above >= 1)
    => /\ Len(emitted) > ret.emitted_before
       /\ Head(emitted).event_type = "impact"
       /\ Head(emitted).session_id = ret.session[1].session_id

\* C10 (SpecConfig): create_session either stores the new config and makes it the
\* current session, or raises and leaves current_session and the store as they
\* were before the call.
C10_CreateSessionAllOrNothing ==
    [][ret'.op = "create_session"
       => IF ret'.raised
          THEN current_session' = current_session /\ redis' = redis
          ELSE /\ current_session' = Some(ret'.value)
               /\ config_key(ret'.value.session_id) \in DOMAIN redis'
               /\ redis'[config_key(ret'.value.session_id)] = config_to_json(ret'.value)
               /\ \A k \in DOMAIN redis \cup DOMAIN redis' :
                      k # config_key(ret'.value.session_id)
                      => k \in DOMAIN redis /\ k \in DOMAIN redis' /\ redis'[k] = redis[k]]_vars

\* C10 witness: create_session raised while a session was current, and that
\* session is still current
C10_RaisedWithSessionCurrent ==
    /\ ret.op = "create_session"
    /\ ret.raised
    /\ current_session # None
    /\ current_session[1].session_id # ret.value.session_id

\* C11 (SpecConfig): load_session(id) for an id with no stored config returns
\* None and leaves current_session as it was; for a stored config (the read
\* not failing) it returns that config and makes it the current session; it
\* never writes to the store, and current_session holds at most one session.
C11_LoadSessionSetsOrKeepsCurrent ==
    [][ret'.op = "load_session"
       => LET id == ret'.session_id
              stored == config_key(id) \in DOMAIN redis
          IN /\ redis' = redis
             /\ Len(current_session') <= 1
             /\ ~stored => (ret'.value = None /\ current_session' = current_session)
             /\ ret'.value = None => current_session' = current_session
             /\ (stored /\ ret'.fail = "none")
                => /\ ret'.value # None
                   /\ current_session' = ret'.value
                   /\ ret'.value[1].session_id = id
                   /\ \A f \in ConfigKeys \ {"session_start_time"} :
                          ret'.value[1][f] = redis[config_key(id)][f]
                   /\ isoformat(ret'.value[1].session_start_time)
                          = redis[config_key(id)].session_start_time]_vars

\* C11 witness: a load of an id that has no config while another session is
\* current, and that session is still current
C11_LoadedUnknownIdKeepsCurrent ==
    /\ ret.op = "load_session"
    /\ ret.fail = "none"
    /\ ret.value = None
    /\ config_key(ret.session_id) \notin DOMAIN redis
    /\ current_session # None
    /\ current_session[1].session_id # ret.session_id

\* C12 (SpecUpdate): update_session_config changes only impact_threshold and
\* face_normal_calibration of the current session, to the values passed; every
\* other keyword is ignored and the six other fields keep their values; the
\* store gets nothing but the config of that session; with no current session
\* it returns False and writes nothing.
C12_UpdateTouchesAllowedFieldsOnly ==
    [][ret'.op = "update_session_config"
       => IF current_session = None
          THEN ~ret'.value /\ redis' = redis /\ current_session' = None
          ELSE LET old == current_session[1]
                   new == current_session'[1]
                   key == config_key(old.session_id)
               IN /\ current_session' # None
                  /\ DOMAIN new = ConfigKeys
                  /\ \A f \in {"session_id", "user_id", "club_id", "club_length",
                                "club_mass", "session_start_time"} : new[f] = old[f]
                  /\ \A f \in {"impact_threshold", "face_normal_calibration"} :
                         new[f] = IF f \in DOMAIN ret'.kwargs THEN ret'.kwargs[f] ELSE old[f]
                  /\ \A k \in (DOMAIN redis \cup DOMAIN redis') \ {key} :
                         k \in DOMAIN redis /\ k \in DOMAIN redis' /\ redis'[k] = redis[k]
                  /\ IF ret'.value
                     THEN redis'[key] = [new EXCEPT !.session_start_time =
                                            isoformat(old.session_start_time)]
                     ELSE redis' = redis]_vars

\* C12 witness: an update that passed impact_threshold and club_length: the
\* threshold is the new one and the club length is not the one passed
C12_UpdateIgnoredClubLength ==
    /\ ret.op = "update_session_config"
    /\ ret.value
    /\ "club_length" \in DOMAIN ret.kwargs
    /\ current_session # None
    /\ current_session[1].impact_threshold = ret.kwargs.impact_threshold
    /\ current_session[1].club_length # ret.kwargs.club_length

\* C13 (SpecConfig): create_session with an impact_threshold below
\* MIN_IMPACT_THRESHOLD_G or above MAX_IMPACT_THRESHOLD_G (zero included) is
\* rejected: it raises, no config is stored under the new id and the new
\* session does not become the current one.
C13_OutOfRangeThresholdRejected ==
    (/\ ret.op = "create_session"
     /\ ret.arg # None
     /\ (ret.arg[1] < MIN_IMPACT_THRESHOLD_G \/ ret.arg[1] > MAX_IMPACT_THRESHOLD_G))
    => /\ ret.raised
       /\ config_key(ret.value.session_id) \notin DOMAIN redis
       /\ (current_session = None
           \/ current_session[1].session_id # ret.value.session_id)

\* C14 (SpecPipeline): send_session_config_to_arduino, start_swing_monitoring
\* and the entry points start_continuous_monitoring and start_data_collection_c,
\* called with no current session or with the transport not connected, write
\* nothing to the transport and give a failure value (the entry points do not
\* enter their loop).
C14_NoWriteWithoutSessionAndTransport ==
    [][(/\ ret'.op \in {"send_session_config_to_arduino", "start_swing_monitoring",
                        "start_continuous_monitoring", "start_data_collection_c"}
        /\ backend.at = "idle"
        /\ (current_session = None \/ ~backend.is_connected))
       => /\ backend'.written = backend.written
          /\ ret'.value = FALSE
          /\ backend'.at = "idle"]_vars

\* C15 (SpecPipeline): backend.running is True only while the loop of
\* start_continuous_monitoring or of start_data_collection_c is executing;
\* once either operation has returned, on whatever path, it is False.
C15_RunningOnlyInsideLoop ==
    backend.running => backend.at \in Monitoring \cup Collecting

\* C16 (SpecPipeline): after an interrupt (KeyboardInterrupt, or SIGINT /
\* SIGTERM through _signal_handler) that arrived while a loop ran, the loop
\* has stopped and the final step was done before control left the operation:
\* for start_data_collection_c the helper is terminated and the collected
\* data was counted and processed, for start_continuous_monitoring the
\* stop-monitoring step ran.
C16_InterruptStopsLoopAndFlushes ==
    (ret.op = "interrupt" /\ ret.during # "idle")
    => /\ backend.at \notin Monitoring \cup Collecting
       /\ ~backend.running
       /\ ret.during = "collecting" => (backend.process = "terminated" /\ ret.flushed)
       /\ ret.during = "monitoring" => ret.stop_ran

\* C17 (SpecMonitoring): when the connection flag is False while the loop of
\* start_continuous_monitoring runs, the loop eventually ends and running
\* becomes False.
C17_DisconnectEndsMonitoring ==
    (backend.at \in Monitoring /\ ~backend.is_connected) ~> ~backend.running

\* a record that has the nine sensor fields
has_sensor_fields(line) == line.text = "json" /\ SensorKeys \subseteq DOMAIN line.dict

\* C18 (SpecDecode): a malformed line (banner, truncated record, record
\* without a required field, bytes that do not decode) never raises out of
\* read_imu_data, which gives None for it; _process_c_collected_data goes on
\* with the remaining lines, its processed count is the number of well-formed
\* lines, and it keeps a skipped count that is the number of malformed lines.
C18_MalformedLineSkippedAndCounted ==
    /\ ret.op = "read_imu_data"
       => /\ ~ret.raised
          /\ ~has_sensor_fields(ret.line) => ret.value = None
    /\ ret.op = "_process_c_collected_data"
       => LET good == {i \in 1..Len(ret.lines) : has_sensor_fields(ret.lines[i])}
          IN /\ ret.processed = Cardinality(good)
             /\ ret.skipped = Some(Len(ret.lines) - Cardinality(good))

\* C19 (SpecDecode): a record with the nine sensor fields and no quaternion
\* fields decodes to a sample with qw = 1, qx = qy = qz = 0: read from the
\* connected transport by read_imu_data, stored from the collected file by
\* _process_c_collected_data (the record of the inputs with ax = 981), and
\* given to IMUData directly.
C19_MissingQuaternionDefaults ==
    LET unit(v) == v.qw = 1 /\ v.qx = 0 /\ v.qy = 0 /\ v.qz = 0
        bare(d) == SensorKeys \subseteq DOMAIN d
                   /\ DOMAIN d \cap {"qw", "qx", "qy", "qz"} = {}
    IN /\ (ret.op = "read_imu_data" /\ ret.connected /\ ret.line.text = "json"
           /\ bare(ret.line.dict))
          => (~ret.raised /\ ret.value # None /\ unit(ret.value[1]))
       /\ (ret.op = "IMUData" /\ bare(ret.kwargs))
          => (~ret.raised /\ ret.value # None /\ unit(ret.value[1]))
       /\ (ret.op = "_process_c_collected_data" /\ current_session # None)
          => \A i \in 1..llen(redis, to_key(current_session[1], "imu_buffer")) :
                LET v == entries(redis, to_key(current_session[1], "imu_buffer"))[i]
                IN v.ax = 981 => unit(v)

C21_StoredSwingHasSamplesAndDerivedDuration ==
    \A id \in SessionIds :
        \A i \in 1..llen(redis, swings_key(id)) :
            LET swing == entries(redis, swings_key(id))[i]
            IN /\ Len(swing.imu_data_points) > 0
               /\ swing.swing_duration = fromisoformat(swing.swing_end_time).sec
                                           - fromisoformat(swing.swing_start_time).sec
               /\ swing.swing_duration >= 0

\* the line is the JSON object of a swing: the seven required fields, and
\* every point with its fourteen fields
is_swing_line(line) ==
    /\ line.text = "json"
    /\ {"swing_id", "session_id", "imu_data_points", "swing_start_time", "swing_end_time",
        "swing_duration", "impact_g_force"} \subseteq DOMAIN line.dict
    /\ \A i \in 1..Len(line.dict.imu_data_points) :
           ImuKeys \subseteq DOMAIN line.dict.imu_data_points[i]

C25_StatisticsOverStoredSwings ==
    (ret.op = "get_swing_statistics" /\ ret.fail = "none" /\ current_session # None)
    => LET stored == entries(redis, swings_key(current_session[1].session_id))
           n == Len(stored)
           sum(field) == total_of(stored, field)
       IN IF n = 0
          THEN /\ ret.value.swing_count = 0
               /\ ret.value.average_duration = 0
               /\ ret.value.average_impact_g = 0
          ELSE /\ n <= SWING_BUFFER_SIZE
               /\ ret.value.swing_count = n
               /\ ret.value.average_duration.num * n
                     = sum("swing_duration") * ret.value.average_duration.den
               /\ ret.value.average_impact_g.num * n
                     = sum("impact_g_force") * ret.value.average_impact_g.den
               /\ ret.value.min_impact_g * ret.value.average_impact_g.den
                     <= ret.value.average_impact_g.num
               /\ ret.value.average_impact_g.num
                     <= ret.value.max_impact_g * ret.value.average_impact_g.den

\* C26: the runner's connect_arduino makes at most
\* ARDUINO_CONNECT_MAX_RETRIES attempts and none after a successful one; it
\* has slept the first delay after the first failure and twice that after
\* the second, and nothing after the third; it returns True only after a
\* successful attempt, with arduino_connected True, and False only after
\* three failures, with arduino_connected still False
C26_ConnectRetriesWithDoublingDelay ==
    LET failures == Cardinality({i \in 1..Len(runner.outcomes) : ~runner.outcomes[i]})
        delays == <<ARDUINO_CONNECT_RETRY_DELAY_MS, 2 * ARDUINO_CONNECT_RETRY_DELAY_MS>>
    IN /\ runner.attempt <= ARDUINO_CONNECT_MAX_RETRIES
       /\ Len(runner.outcomes) = runner.attempt
       /\ \A i \in 1..(Len(runner.outcomes) - 1) : ~runner.outcomes[i]
       /\ runner.slept = SubSeq(delays, 1, IF failures < 2 THEN failures ELSE 2)
       /\ runner.connect_ret = Some(TRUE) =>
             /\ runner.outcomes[Len(runner.outcomes)]
             /\ runner.system_status.arduino_connected
       /\ runner.connect_ret = Some(FALSE) =>
             /\ runner.attempt = ARDUINO_CONNECT_MAX_RETRIES
             /\ failures = ARDUINO_CONNECT_MAX_RETRIES
             /\ ~runner.system_status.arduino_connected

\* connect_arduino has returned after three attempts and two delays
C26_ThirdAttemptMade ==
    /\ runner.connect_ret # None
    /\ runner.attempt = ARDUINO_CONNECT_MAX_RETRIES
    /\ Len(runner.slept) = 2

\* C27: a stop() of the runner that has begun runs to its end: running is
\* False, the backend has been stopped, and the Redis server the runner
\* started has been stopped, whether or not stopping the backend raised
C27_StopRunsToItsEnd ==
    (runner.at.main = "stop") ~>
        (/\ runner.at.main = "stop_return"
         /\ ~runner.running
         /\ runner.redis_process = None)

\* C28: every read and every write of system_status is made by a thread
\* that holds status_lock at that moment, so none is made while another
\* thread holds it
C28_StatusAccessHoldsLock ==
    ret.op = "system_status" => ret.holder = Some(ret.thread)

SerialCalls ==
    {"SerialManager.send_command", "SerialManager.send_session_config", "read_imu_data",
     "SerialManager.wait_for_swing_data", "SerialManager.imu_data_stream"}

\* C29: a call of the serial manager made while is_connected is False
\* writes nothing to the transport and reads nothing from it, and leaves the
\* serial manager as it was (it does not connect again): send_command and
\* send_session_config give False, read_imu_data and wait_for_swing_data
\* give None, imu_data_stream yields nothing (the empty sequence, which is
\* how None is written here too); get_connection_status says
\* connected only if there is a connection object
C29_NotConnectedNothingWrittenOrRead ==
    [][/\ (ret'.op \in SerialCalls /\ ~backend.is_connected) =>
             /\ backend' = backend
             /\ ~ret'.read
             /\ ret'.value = IF ret'.op \in {"SerialManager.send_command",
                                              "SerialManager.send_session_config"}
                              THEN FALSE
                              ELSE None
       /\ (ret'.op = "SerialManager.get_connection_status" /\ ret'.value.connected) =>
             /\ backend.serial_connection # None
             /\ backend' = backend]_vars

\* a command refused after a disconnect, the closed connection object still
\* there
C29_CommandRefusedAfterDisconnect ==
    /\ ret.op = "SerialManager.send_command"
    /\ ~ret.value
    /\ ~backend.is_connected
    /\ backend.serial_connection = Some("closed")

\* C30: get_imu_buffer returns the valid samples of the stored list in the
\* reverse of the order of the list: the last valid entry of the list first,
\* the first valid entry last, corrupt entries left out
C30_ImuBufferReversed ==
    (ret.op = "get_imu_buffer" /\ ret.fail = "none" /\ ret.count = None)
    => LET all == entries(redis, to_key(Config1, "imu_buffer"))
           ok(i) == ImuKeys \subseteq DOMAIN all[i]
           rank(i) == Cardinality({j \in 1..i : ok(j)})
           valid == Cardinality({i \in 1..Len(all) : ok(i)})
       IN /\ Len(ret.value) = valid
          /\ \A i \in 1..Len(all) :
                ok(i) => imu_to_json(ret.value[valid + 1 - rank(i)]) = all[i]

\* what a step wrote to the device: the messages of b2.written after those of b
Sent(b, b2) == SubSeq(b2.written, Len(b.written) + 1, Len(b2.written))

\* the number of STOP_MONITORING messages written after the last
\* START_MONITORING
StopsSinceStart(b) ==
    LET starts == {i \in 1..Len(b.written) : b.written[i][1] = "START_MONITORING"}
        last == IF starts = {} THEN 0 ELSE CHOOSE i \in starts : \A j \in starts : j <= i
    IN Cardinality({i \in (last + 1)..Len(b.written) :
                        b.written[i][1] = "STOP_MONITORING"})

\* the order of start_continuous_monitoring up to its loop: nothing, the
\* config alone, or the config and then START_MONITORING; the loop is entered
\* exactly when both were written
ProtocolOrder(b, b2, entered) ==
    LET sent == Sent(b, b2)
    IN /\ Len(sent) <= 2
       /\ Len(sent) >= 1 => sent[1][1] = "CONFIG"
       /\ Len(sent) = 2 => sent[2] = <<"START_MONITORING">>
       /\ entered = (Len(sent) = 2)
       /\ entered = (b2.at \in Monitoring)

C32_StopSendsThenDisconnects ==
    [][ret'.op = "stop" =>
          /\ ~backend'.running
          /\ ~backend'.is_connected
          /\ backend'.serial_connection =
                IF backend.serial_connection = None THEN None ELSE Some("closed")
          /\ Sent(backend, backend') =
                IF backend.is_connected /\ backend.serial_connection # None /\ ~ret'.fail
                THEN << <<"STOP_MONITORING">> >>
                ELSE << >>]_vars

\* stop called during the receive loop on a connected transport: the command
\* went out and the transport is closed
C32_StoppedWhileMonitoring ==
    /\ ret.op = "stop"
    /\ backend.at \in Monitoring
    /\ ~backend.running
    /\ ~backend.is_connected
    /\ backend.serial_connection = Some("closed")
    /\ Len(backend.written) >= 1
    /\ backend.written[Len(backend.written)] = <<"STOP_MONITORING">>

C34_MonitoringThreadPolls ==
    (runner.running /\ runner.system_status.monitoring_active)
    ~> \/ runner.at.monitoring = "wait"
       \/ ~runner.running
       \/ ~runner.system_status.monitoring_active

\* C35: after every create_session, load_session and update_session_config
\* call, store failures included, the current SessionConfig is the config
\* stored under session_config:<session_id>; an update_session_config that
\* returns False leaves the current SessionConfig as it was
C35_CurrentEqualsPersisted ==
    [][/\ current_session' # None =>
             rget(redis', config_key(current_session'[1].session_id))
                = Some(config_to_json(current_session'[1]))
       /\ (ret'.op = "update_session_config" /\ ~ret'.value) =>
             current_session' = current_session]_vars

\* C36: every reader of the swings of a session reads the list that
\* store_swing_data writes: when swings were stored for the current session
\* and the read meets no store error, get_swing_data and get_recent_swings
\* return the newest swings of that list, newest first, as many as were asked
\* for, and get_session_swing_count and the swing_count of
\* get_session_statistics are the length of that list
C36_ReadersSeeStoredSwings ==
    (current_session # None /\ ret.op \in {"get_swing_data", "get_recent_swings",
                                            "get_session_swing_count",
                                            "get_session_statistics"}
                            /\ ret.fail = "none")
    => LET stored == lrange(redis, swings_key(current_session[1].session_id), 0, -1)
       IN stored # <<>> =>
             CASE ret.op \in {"get_swing_data", "get_recent_swings"} ->
                     /\ Len(ret.value) = Min(ret.count[1], Len(stored))
                     /\ \A i \in 1..Len(ret.value) :
                           ret.value[i].swing_id = stored[i].swing_id
               [] ret.op = "get_session_swing_count" -> ret.value = Len(stored)
               [] ret.op = "get_session_statistics" ->
                     ret.value.swing_count = Len(stored)

\* C37: once clear_session_data(s) has returned True nothing is recorded
\* under s any more: s is not the current session after the call, and the
\* store never holds a list of a session (samples, swings, events) that has
\* no config
C37_NoRecordsAfterClear ==
    [][/\ (ret'.op = "clear_session_data" /\ ret'.value) =>
             \/ current_session' = None
             \/ current_session'[1].session_id # ret'.session_id
       /\ \A id \in SessionIds :
             kinds_of(redis', id) \cap {"imu_buffer", "swings", "events"} # {}
                => "config" \in kinds_of(redis', id)]_vars

\* C38: when _process_c_collected_data has stored k >= 1 samples for the
\* current session, the save_session_data call at its end leaves the k
\* samples in the data file of the session; cleanup_session writes the
\* samples still waiting in _imu_buffer to that file before it empties the
\* buffer
C38_FlushSavesSamples ==
    [][/\ (ret'.op = "_process_c_collected_data" /\ current_session # None) =>
             LET key == to_key(current_session[1], "imu_buffer")
                 id == current_session[1].session_id
                 k == llen(redis', key) - llen(redis, key)
             IN k >= 1 =>
                   /\ id \in DOMAIN local'.files
                   /\ Len(local'.files[id]) >= k
                   /\ \A i \in 1..k :
                         \E j \in 1..Len(local'.files[id]) :
                            local'.files[id][j] = redis'[key][i]
       /\ ret'.op = "cleanup_session" =>
             /\ local'.imu_buffer = <<>>
             /\ local.imu_buffer # <<>> =>
                   /\ current_session[1].session_id \in DOMAIN local'.files
                   /\ local'.files[current_session[1].session_id] = local.imu_buffer]_vars

====
